---- MODULE Spec2Model ----
(***************************************************************************)
(* Model of the UE Mini Boom controller's command protocol layer:          *)
(*   protocol.py  build_spp_command                                        *)
(*   spp.py       _find_rfcomm_channel, send_spp_command,                  *)
(*                _send_spp_pybluez, query_spp_value, query_spp_values     *)
(* One call of one function runs at a time (the program is single          *)
(* threaded).  Every collaborator call (sdptool, socket, connect, send,    *)
(* settimeout, recv, close, find_service, import bluetooth) is one step    *)
(* whose outcome - normal result or raised exception class - is chosen     *)
(* nondeterministically.  `log` records the collaborator calls in order.   *)
(***************************************************************************)
EXTENDS Integers, Sequences, FiniteSets, TLC

(***************************************************************************)
(* Bounds of the model.                                                    *)
(***************************************************************************)
MaxParams == 2   \* longest enumerated parameter list of build_spp_command
MaxIds    == 2   \* longest command_ids list given to query_spp_values
MaxResp   == 3   \* longest byte string returned by one recv
MaxLines  == 2   \* most lines of sdptool output
MaxPaired == 2   \* most lines of `bluetoothctl devices Paired` output
MaxPrompts == 2  \* most menu prompts of one interactive session

(***************************************************************************)
(* Values.                                                                 *)
(***************************************************************************)
Byte == 0..255

\* Python's None where an int is expected (channel, value byte)
None == -1

_DEFAULT_RFCOMM_CHANNEL == 5

EQ_PRESET == 100          \* 0x64
SONIFICATION == 101       \* 0x65
BATTERY_ANNOUNCE == 107   \* 0x6B
VOLUME_ADJUST == 187      \* 0xBB
SET_NAME == 114           \* 0x72
EMIT_SOUND == 108         \* 0x6C
DOUBLE_UP_MODE == 103     \* 0x67
DOUBLE_UP_ROLE == 104     \* 0x68
DOUBLE_UP_LOCK == 105     \* 0x69

\* The empty byte string / empty list.
Empty == << >>

(***************************************************************************)
(* Exceptions: the classes the collaborators raise and Python's class      *)
(* hierarchy, which decides what an except clause catches.                 *)
(***************************************************************************)
NoExc == "none"

ExcParent ==
    [e \in {"OSError", "TimeoutError", "ConnectionRefusedError", "FileNotFoundError",
            "PermissionError", "TimeoutExpired", "ValueError", "ImportError",
            "UnicodeEncodeError", "KeyError", "EOFError", "KeyboardInterrupt",
            "Exception", "BaseException"} |->
        CASE e = "TimeoutError"           -> "OSError"
          [] e = "ConnectionRefusedError" -> "OSError"
          [] e = "FileNotFoundError"      -> "OSError"
          [] e = "PermissionError"        -> "OSError"
          [] e = "UnicodeEncodeError"     -> "ValueError"
          [] e = "KeyboardInterrupt"      -> "BaseException"
          [] e = "Exception"              -> "BaseException"
          [] OTHER                        -> "Exception"]

RECURSIVE IsSubclass(_, _)
IsSubclass(e, c) ==
    IF e = c THEN TRUE
    ELSE IF e = "BaseException" THEN FALSE
    ELSE IsSubclass(ExcParent[e], c)

\* `except (c1, c2, ...)` catches e
Catches(classes, e) == \E c \in classes : IsSubclass(e, c)

(***************************************************************************)
(* protocol.py: build_spp_command.  bytes(...) raises ValueError for an    *)
(* element outside range(0, 256).                                          *)
(***************************************************************************)
ToBytes(ints) ==
    IF \A k \in 1..Len(ints) : ints[k] \in Byte
    THEN [exc |-> NoExc, bytes |-> ints]
    ELSE [exc |-> "ValueError", bytes |-> Empty]

\* build_spp_command with the length reduced modulo 256 instead of rejected
build_spp_command_length_wraps(cid, ps) ==
    LET payload == ToBytes(<<1, cid>> \o ps)
        length  == Len(payload.bytes) % 256
    IN  IF payload.exc # NoExc THEN payload
        ELSE [exc |-> NoExc, bytes |-> <<length>> \o payload.bytes]

\* build_spp_command with the length byte counting itself
build_spp_command_counts_itself(cid, ps) ==
    LET payload == ToBytes(<<1, cid>> \o ps)
        length  == Len(payload.bytes) + 1
        head    == ToBytes(<<length>>)
    IN  IF payload.exc # NoExc THEN payload
        ELSE IF head.exc # NoExc THEN head
        ELSE [exc |-> NoExc, bytes |-> head.bytes \o payload.bytes]

build_spp_command(cid, ps) ==
    LET payload == ToBytes(<<1, cid>> \o ps)
        length  == Len(payload.bytes)
        head    == ToBytes(<<length>>)
    IN  IF payload.exc # NoExc THEN payload
        ELSE IF head.exc # NoExc THEN head
        ELSE [exc |-> NoExc, bytes |-> head.bytes \o payload.bytes]

(***************************************************************************)
(* protocol.py: COMMANDS, the packets built when the module is loaded.     *)
(***************************************************************************)
CommandKeys ==
    {"battery_announce", "sound_power_on", "mode_double", "mode_stereo",
     "stereo_discover", "role_left", "role_right", "doubleup_lock_off",
     "doubleup_lock_on"}

COMMANDS ==
    [k \in CommandKeys |->
        CASE k = "battery_announce"  -> build_spp_command(BATTERY_ANNOUNCE, << >>).bytes
          [] k = "sound_power_on"    -> build_spp_command(EMIT_SOUND, <<96, 192>>).bytes
          [] k = "mode_double"       -> build_spp_command(DOUBLE_UP_MODE, <<0>>).bytes
          [] k = "mode_stereo"       -> build_spp_command(DOUBLE_UP_MODE, <<1>>).bytes
          [] k = "stereo_discover"   -> build_spp_command(DOUBLE_UP_LOCK, << >>).bytes
          [] k = "role_left"         -> build_spp_command(DOUBLE_UP_ROLE, <<0>>).bytes
          [] k = "role_right"        -> build_spp_command(DOUBLE_UP_ROLE, <<1>>).bytes
          [] k = "doubleup_lock_off" -> build_spp_command(DOUBLE_UP_LOCK, <<0>>).bytes
          [] k = "doubleup_lock_on"  -> build_spp_command(DOUBLE_UP_LOCK, <<1>>).bytes]

(***************************************************************************)
(* spp.py: set_speaker_name's name bytes.  A name is a sequence of code    *)
(* points; str.encode("utf-8") writes each as one to four bytes and raises *)
(* UnicodeEncodeError for a surrogate.                                     *)
(***************************************************************************)
Utf8OfCodePoint(c) ==
    IF c < 128 THEN <<c>>
    ELSE IF c < 2048 THEN <<192 + (c \div 64), 128 + (c % 64)>>
    ELSE IF c < 65536
         THEN <<224 + (c \div 4096), 128 + ((c \div 64) % 64), 128 + (c % 64)>>
    ELSE <<240 + (c \div 262144), 128 + ((c \div 4096) % 64),
           128 + ((c \div 64) % 64), 128 + (c % 64)>>

IsSurrogate(c) == c \in 55296..57343

RECURSIVE Utf8From(_, _)
Utf8From(s, k) ==
    IF k > Len(s) THEN << >>
    ELSE Utf8OfCodePoint(s[k]) \o Utf8From(s, k + 1)

Utf8Encode(s) ==
    IF \E k \in DOMAIN s : IsSurrogate(s[k])
    THEN [exc |-> "UnicodeEncodeError", bytes |-> << >>]
    ELSE [exc |-> NoExc, bytes |-> Utf8From(s, 1)]

\* the slice b[:n]
SliceTo(b, n) == SubSeq(b, 1, IF Len(b) < n THEN Len(b) ELSE n)

\* the cut made on characters, before encoding
NameBytes_cuts_characters(s) == Utf8Encode(SliceTo(s, 32))

\* name.encode("utf-8")[:32]
NameBytes(s) ==
    LET encoded == Utf8Encode(s)
    IN  IF encoded.exc # NoExc THEN encoded
        ELSE [exc |-> NoExc, bytes |-> SliceTo(encoded.bytes, 32)]

(***************************************************************************)
(* spp.py: the scan of a response for the value of command_id              *)
(* (for i in range(len(resp) - 1): if resp[i] == command_id: resp[i+1]).   *)
(* Indices are 1-based here: i runs over 1..Len(resp)-1.                   *)
(***************************************************************************)
\* the scan letting the last match win (no return / break at the first)
RECURSIVE ScanResponse_last_match(_, _, _)
ScanResponse_last_match(r, cid, i) ==
    IF i > Len(r) - 1 THEN None
    ELSE LET later == ScanResponse_last_match(r, cid, i + 1)
         IN  IF later # None THEN later
             ELSE IF r[i] = cid THEN r[i + 1]
             ELSE None

RECURSIVE ScanResponse(_, _, _)
ScanResponse(r, cid, i) ==
    IF i > Len(r) - 1 THEN None
    ELSE IF r[i] = cid THEN r[i + 1]
    ELSE ScanResponse(r, cid, i + 1)

\* the probe with a length byte that counts itself
QueryBytes_counts_itself(cid) == ToBytes(<<3, 1, cid>>)

\* bytes([0x02, 0x01, command_id])
QueryBytes(cid) == ToBytes(<<2, 1, cid>>)

(***************************************************************************)
(* spp.py: _find_rfcomm_channel.  The tool either raises or prints lines;  *)
(* a line is [isChannel, num]: isChannel is line.startswith("Channel:"),   *)
(* num the integer int() parses from the rest, or None when int() raises   *)
(* ValueError.                                                             *)
(***************************************************************************)
RECURSIVE FirstChannelLine(_, _)
FirstChannelLine(lines, k) ==
    IF k > Len(lines) THEN [exc |-> NoExc, value |-> None]
    ELSE IF lines[k].isChannel
         THEN IF lines[k].num = None
              THEN [exc |-> "ValueError", value |-> None]
              ELSE [exc |-> NoExc, value |-> lines[k].num]
         ELSE FirstChannelLine(lines, k + 1)

\* _find_rfcomm_channel with `except FileNotFoundError` only
_find_rfcomm_channel_missing_tool_only(tool) ==
    LET body == IF tool.exc # NoExc
                THEN [exc |-> tool.exc, value |-> None]
                ELSE FirstChannelLine(tool.lines, 1)
    IN  IF body.exc = NoExc THEN body
        ELSE IF Catches({"FileNotFoundError"}, body.exc)
             THEN [exc |-> NoExc, value |-> None]
             ELSE body

_find_rfcomm_channel(tool) ==
    LET body == IF tool.exc # NoExc
                THEN [exc |-> tool.exc, value |-> None]
                ELSE FirstChannelLine(tool.lines, 1)
    IN  IF body.exc = NoExc THEN body
        ELSE IF Catches({"FileNotFoundError", "TimeoutExpired", "ValueError"}, body.exc)
             THEN [exc |-> NoExc, value |-> None]
             ELSE body

\* channel = _find_rfcomm_channel(mac); if channel is None: channel = default
ResolveChannel(found) ==
    IF found = None THEN _DEFAULT_RFCOMM_CHANNEL ELSE found

(***************************************************************************)
(* Inputs and collaborator outcomes.                                       *)
(***************************************************************************)
SeqsUpTo(S, n) == UNION {[1..k -> S] : k \in 0..n}

Range(f) == {f[k] : k \in DOMAIN f}

\* command ids and parameter values handed to build_spp_command; 256 is the
\* first value bytes() rejects
BuildIds == {0, EQ_PRESET, BATTERY_ANNOUNCE, VOLUME_ADJUST, 255, 256}

ParamValues == {0, 1, 255, 256}

\* parameter lists: all short ones, and lists of 253 and 254 ones (the
\* longest the length byte can count, and the first it cannot)
LongParams == {[k \in 1..n |-> 1] : n \in {253, 254}}

ParamLists == SeqsUpTo(ParamValues, MaxParams) \cup LongParams

\* packets handed to send_spp_command
SendPackets ==
    {build_spp_command(BATTERY_ANNOUNCE, Empty).bytes,
     build_spp_command(EQ_PRESET, <<1>>).bytes}

\* names handed to set_speaker_name: the empty name, "MyBoom", one-byte
\* characters up to and beyond 32 bytes, two-byte characters (e-acute) ending
\* at and straddling byte 32, a three- and a four-byte character, a surrogate
Repeat(c, n) == [k \in 1..n |-> c]

Names ==
    {Empty, <<77, 121, 66, 111, 111, 109>>}
    \cup {Repeat(65, n) : n \in {32, 33, 50}}
    \cup {Repeat(233, n) : n \in {16, 17}}
    \cup {<<65>> \o Repeat(233, 16), <<8364>>, <<128512>>, <<65, 56448>>}

\* no name: set_speaker_name is not running
NoName == <<None>>

\* command ids queried (cli.py _print_status queries EQ_PRESET, SONIFICATION, ...)
QueryIds == {EQ_PRESET, SONIFICATION}

IdSeqs == SeqsUpTo(QueryIds, MaxIds)

\* bytes the device answers with
RespBytes == {0, EQ_PRESET, SONIFICATION}

\* the response envelope of observed traffic: [len] 00 00 01 [cmd_id] [value]
Envelope(cid, value) == <<5, 0, 0, 1, cid, value>>

\* bytes a device sends ahead of the envelope: none, a zero, a byte that
\* happens to equal a command id
Noises == {Empty, <<0>>, <<EQ_PRESET>>}

EnvelopeResponses ==
    {noise \o Envelope(cid, value) : noise \in Noises, cid \in QueryIds, value \in {0, 1}}

Responses == SeqsUpTo(RespBytes, MaxResp) \cup EnvelopeResponses

\* the response to a command is only printed by send_spp_command
SendResponses == {r \in Responses : Len(r) <= 1}

\* sdptool: raises, or prints lines
ToolLines ==
    {[isChannel |-> FALSE, num |-> None],
     [isChannel |-> TRUE, num |-> 1],
     [isChannel |-> TRUE, num |-> None]}

ToolOutcomes ==
    {[exc |-> e, lines |-> Empty] :
        e \in {"FileNotFoundError", "TimeoutExpired", "PermissionError"}}
    \cup {[exc |-> NoExc, lines |-> ls] : ls \in SeqsUpTo(ToolLines, MaxLines)}

\* pybluez find_service: the ports of the services found, in order
ServiceMatches == {Empty, <<1>>, <<3, 1>>}

\* the socket layer raises OSError and its subclasses (pybluez: BluetoothError,
\* an IOError)
SocketFaults == {"OSError"}
ConnectFaults == {"ConnectionRefusedError", "TimeoutError", "OSError"}
WriteFaults == {"OSError", "TimeoutError"}
TimeoutSetFaults == {"OSError"}
ReadFaults == {"TimeoutError", "OSError"}
CloseFaults == {"OSError"}
LookupFaults == {"OSError"}

Ok(faults) == {NoExc} \cup faults

(***************************************************************************)
(* State.                                                                  *)
(***************************************************************************)
(***************************************************************************)
(* ble.py.  Each function runs one tool with subprocess.run, which raises  *)
(* or yields output lines.  A line of `bluetoothctl devices Paired` is     *)
(* [device, address, keyword]: device says it splits into "Device", an     *)
(* address and a name; keyword says the upper-cased name contains one of   *)
(* UE_NAME_KEYWORDS.                                                       *)
(***************************************************************************)
ToolFaults == {"FileNotFoundError", "TimeoutExpired", "PermissionError"}

UE_OUI_PREFIXES == {"88:C6:26", "38:F0:C8", "44:73:D6", "94:02:30", "C8:DB:26"}

PairedLines ==
    {[device |-> FALSE, address |-> <<"88:C6:26", "00:00:01">>, keyword |-> TRUE],
     [device |-> TRUE,  address |-> <<"88:C6:26", "00:00:01">>, keyword |-> FALSE],
     [device |-> TRUE,  address |-> <<"00:11:22", "00:00:02">>, keyword |-> TRUE],
     [device |-> TRUE,  address |-> <<"00:11:22", "00:00:03">>, keyword |-> FALSE]}

PairedOutcomes ==
    {[exc |-> e, lines |-> Empty] : e \in ToolFaults}
    \cup {[exc |-> NoExc, lines |-> ls] : ls \in SeqsUpTo(PairedLines, MaxPaired)}

\* lines 83-88
is_ue_device(address, keyword) == keyword \/ address[1] \in UE_OUI_PREFIXES

IsPairedUe(line) == line.device /\ is_ue_device(line.address, line.keyword)

\* lines 91-112: only FileNotFoundError is caught
get_paired_ue_devices(tool) ==
    IF tool.exc # NoExc
    THEN [exc |-> IF Catches({"FileNotFoundError"}, tool.exc) THEN NoExc ELSE tool.exc,
          devices |-> Empty]
    ELSE LET kept == SelectSeq(tool.lines, IsPairedUe)
         IN  [exc |-> NoExc, devices |-> [k \in DOMAIN kept |-> kept[k].address]]

\* a line of `bluetoothctl info`: the field it starts with and whether its
\* value is "yes".  Name, Alias, Modalias and Battery lines only change
\* what is printed and count as "other".
StatusLines ==
    {[key |-> "Connected:", yes |-> TRUE], [key |-> "Connected:", yes |-> FALSE],
     [key |-> "Paired:", yes |-> TRUE], [key |-> "other", yes |-> FALSE]}

StatusOutcomes ==
    {[exc |-> e, lines |-> Empty] : e \in ToolFaults}
    \cup {[exc |-> NoExc, lines |-> ls] : ls \in SeqsUpTo(StatusLines, MaxLines)}

\* lines 24-47: the dict built line by line, a later line replacing an earlier
RECURSIVE InfoFrom(_, _, _)
InfoFrom(lines, k, info) ==
    IF k > Len(lines) THEN info
    ELSE LET line == lines[k]
             field == IF line.key = "Connected:" THEN "connected"
                      ELSE IF line.key = "Paired:" THEN "paired" ELSE ""
         IN  IF field = "" THEN InfoFrom(lines, k + 1, info)
             ELSE InfoFrom(lines, k + 1,
                           [f \in DOMAIN info \cup {field} |->
                               IF f = field THEN line.yes ELSE info[f]])

\* lines 8-47: FileNotFoundError and TimeoutExpired give the empty dict
get_device_status(tool) ==
    IF tool.exc # NoExc
    THEN [exc |-> IF Catches({"FileNotFoundError", "TimeoutExpired"}, tool.exc)
                  THEN NoExc ELSE tool.exc,
          info |-> Empty]
    ELSE [exc |-> NoExc, info |-> InfoFrom(tool.lines, 1, Empty)]

\* dict.get(key, default)
Get(info, key, default) == IF key \in DOMAIN info THEN info[key] ELSE default

\* a line of dbus-send's reply: match says it starts with "variant" or
\* contains "byte"; num is int(parts[-1]), None when int() raises ValueError
BatteryLines ==
    {[match |-> FALSE, num |-> None], [match |-> TRUE, num |-> 85],
     [match |-> TRUE, num |-> None]}

BatteryOutcomes ==
    {[exc |-> e, returncode |-> 0, lines |-> Empty] : e \in ToolFaults}
    \cup {[exc |-> NoExc, returncode |-> rc, lines |-> ls] :
            rc \in {0, 1}, ls \in SeqsUpTo(BatteryLines, MaxLines)}

RECURSIVE FirstBatteryLine(_, _)
FirstBatteryLine(lines, k) ==
    IF k > Len(lines) THEN 0
    ELSE IF lines[k].match THEN k
    ELSE FirstBatteryLine(lines, k + 1)

\* lines 50-80: the first matching line decides; -1 on every caught failure
get_battery(tool) ==
    IF tool.exc # NoExc
    THEN IF Catches({"FileNotFoundError", "TimeoutExpired", "ValueError"}, tool.exc)
         THEN [exc |-> NoExc, level |-> -1]
         ELSE [exc |-> tool.exc, level |-> -1]
    ELSE IF tool.returncode # 0 THEN [exc |-> NoExc, level |-> -1]
    ELSE LET k == FirstBatteryLine(tool.lines, 1)
         IN  IF k = 0 THEN [exc |-> NoExc, level |-> -1]
             ELSE IF tool.lines[k].num = None THEN [exc |-> NoExc, level |-> -1]
             ELSE [exc |-> NoExc, level |-> tool.lines[k].num]

(***************************************************************************)
(* cli.py: bytes.fromhex(args.raw.replace(" ", "")).                       *)
(***************************************************************************)
HexDigits ==
    <<"0", "1", "2", "3", "4", "5", "6", "7", "8", "9", "a", "b", "c", "d", "e", "f">>

IsHexDigit(c) == \E v \in DOMAIN HexDigits : HexDigits[v] = c

HexValue(c) == (CHOOSE v \in DOMAIN HexDigits : HexDigits[v] = c) - 1

IsNotSpace(c) == c # " "

\* ValueError for an odd number of digits or a character that is no digit
FromHex(str) ==
    LET digits == SelectSeq(str, IsNotSpace)
    IN  IF Len(digits) % 2 # 0 \/ \E k \in DOMAIN digits : ~IsHexDigit(digits[k])
        THEN [exc |-> "ValueError", bytes |-> Empty]
        ELSE [exc |-> NoExc,
              bytes |-> [k \in 1..(Len(digits) \div 2) |->
                            16 * HexValue(digits[2 * k - 1]) + HexValue(digits[2 * k])]]

(***************************************************************************)
(* cli.py: the command line.  args is argparse's Namespace; an option not  *)
(* given is None or False there, "" / NoName / Empty / FALSE here (all are *)
(* falsy in the tests main makes).  An address is <<OUI, rest>>.           *)
(***************************************************************************)
NoMac == << >>

GivenMac == <<"88:C6:26", "AA:BB:CC">>

NoArgs ==
    [mac |-> NoMac, list |-> FALSE, status |-> FALSE, battery |-> FALSE, eq |-> "",
     stereo_setup |-> FALSE, stereo |-> "", mode |-> "", alerts |-> "", ble |-> "",
     volume |-> "", name |-> NoName, raw |-> Empty, interactive |-> FALSE]

\* names given with --name: "", "MyBoom", and one holding a lone surrogate
CliNames == {Empty, <<77, 121, 66, 111, 111, 109>>, <<65, 56448>>}

\* strings given with --raw, character by character: "03 01 64 01", "0", "zz"
RawStrings ==
    {<<"0", "3", " ", "0", "1", " ", "6", "4", " ", "0", "1">>, <<"0">>, <<"z", "z">>}

\* one option at a time, as argparse accepts it (choices= restricts the values)
OptionArgs ==
    {NoArgs,
     [NoArgs EXCEPT !.list = TRUE],
     [NoArgs EXCEPT !.list = TRUE, !.status = TRUE],
     [NoArgs EXCEPT !.status = TRUE],
     [NoArgs EXCEPT !.status = TRUE, !.battery = TRUE],
     [NoArgs EXCEPT !.battery = TRUE],
     [NoArgs EXCEPT !.stereo_setup = TRUE],
     [NoArgs EXCEPT !.interactive = TRUE]}
    \cup {[NoArgs EXCEPT !.eq = v] : v \in {"outloud", "intimate", "vocals", "off"}}
    \cup {[NoArgs EXCEPT !.stereo = v] : v \in {"left", "right"}}
    \cup {[NoArgs EXCEPT !.mode = v] : v \in {"stereo", "double"}}
    \cup {[NoArgs EXCEPT !.alerts = v] : v \in {"on", "off"}}
    \cup {[NoArgs EXCEPT !.ble = v] : v \in {"on", "off"}}
    \cup {[NoArgs EXCEPT !.volume = v] : v \in {"up", "down"}}
    \cup {[NoArgs EXCEPT !.name = v] : v \in CliNames}
    \cup {[NoArgs EXCEPT !.raw = v] : v \in RawStrings}

\* every such command line with and without --mac
ArgSets == OptionArgs \cup {[a EXCEPT !.mac = GivenMac] : a \in OptionArgs}

\* what main did, in order: print(tag), input(prompt) -> answer or exception,
\* a device operation called with (mac, cmd), its return, the devices found
NoEvent ==
    [ev |-> "", what |-> "", text |-> "", mac |-> NoMac, cmd |-> Empty, ok |-> FALSE,
     exc |-> NoExc, devices |-> Empty]

Printed(tag) == [NoEvent EXCEPT !.ev = "print", !.what = tag]

Asked(prompt, answer, e) ==
    [NoEvent EXCEPT !.ev = "input", !.what = prompt, !.text = answer, !.exc = e]

Called(fn, m, c) == [NoEvent EXCEPT !.ev = "call", !.what = fn, !.mac = m, !.cmd = c]

Returned(fn, b, e) == [NoEvent EXCEPT !.ev = "return", !.what = fn, !.ok = b, !.exc = e]

Found(devices) == [NoEvent EXCEPT !.ev = "devices", !.devices = devices]

VARIABLES
    op,           \* the function being called, "none" when idle
    pc,           \* position in it
    hasAF,        \* hasattr(socket, "AF_BLUETOOTH")
    command_id,   \* argument of build_spp_command / query_spp_value; loop variable
    params,       \* argument of build_spp_command
    command,      \* argument of send_spp_command
    command_ids,  \* argument of query_spp_values
    channel,      \* local variable channel (port of the match in pybluez)
    sock,         \* local variable sock is not None
    idx,          \* position of the for loop in command_ids
    results,      \* local variable results of query_spp_values
    resp,         \* bytes of the last successful recv
    ret,          \* "none" while running, "returned" or "raised" when done
    retBool,      \* returned value of send_spp_command
    retVal,       \* returned value of query_spp_value
    retBytes,     \* returned value of build_spp_command
    raised,       \* exception propagating out of the call
    result,       \* local variable result of _find_rfcomm_channel: what sdptool did
    name,         \* argument of set_speaker_name
    log,          \* collaborator calls so far, in order
    main_pc,      \* position in cli.main and the functions of cli.py it runs
    cli_args,     \* the parsed command line (argparse Namespace)
    mac,          \* local variable mac of main
    stereo_sent,  \* local variable stereo_sent of _stereo_setup_flow
    role_name,    \* local variable role_name of _stereo_setup_flow
    prompts,      \* number of menu prompts interactive_mode has shown
    main_raised,  \* exception propagating out of main
    trace         \* what main did so far: prints, prompts, device operations

cliv == <<main_pc, cli_args, mac, stereo_sent, role_name, prompts, main_raised, trace>>

vars == <<op, pc, hasAF, command_id, params, command, command_ids, channel, sock,
          idx, results, resp, ret, retBool, retVal, retBytes, raised, result, name,
          log, cliv>>

args == <<command_id, params, command, command_ids>>
rets == <<ret, retBool, retVal, retBytes, raised>>

Ev(e, a, o) == [ev |-> e, arg |-> a, out |-> o]

\* no sdptool run in progress
NoResult == [exc |-> NoExc, lines |-> Empty]

Init ==
    /\ op = "none"
    /\ pc = "idle"
    /\ hasAF = FALSE
    /\ command_id = None
    /\ params = Empty
    /\ command = Empty
    /\ command_ids = Empty
    /\ channel = None
    /\ sock = FALSE
    /\ idx = 0
    /\ results = Empty
    /\ resp = Empty
    /\ ret = "none"
    /\ retBool = FALSE
    /\ retVal = None
    /\ retBytes = Empty
    /\ raised = NoExc
    /\ result = NoResult
    /\ name = NoName
    /\ log = Empty
    /\ main_pc = "none"
    /\ cli_args = NoArgs
    /\ mac = NoMac
    /\ stereo_sent = FALSE
    /\ role_name = ""
    /\ prompts = 0
    /\ main_raised = NoExc
    /\ trace = Empty

(***************************************************************************)
(* How a call ends.                                                        *)
(***************************************************************************)
\* an exception leaves the function with no finally clause on the way
Escapes(e) ==
    /\ ret' = "raised"
    /\ raised' = e
    /\ pc' = "done"

\* finally: if sock is not None: sock.close(); then the pending return
\* or the pending exception takes effect.  An exception raised by close()
\* replaces either.
\* the clean-up without the close
Finally_without_close ==
    /\ log' = log
    /\ raised' = raised
    /\ ret' = IF raised = NoExc THEN "returned" ELSE "raised"
    /\ pc' = "done"

Finally ==
    IF sock
    THEN \E o \in Ok(CloseFaults) :
            /\ log' = Append(log, Ev("close", Empty, o))
            /\ IF o = NoExc
               THEN /\ raised' = raised
                    /\ ret' = IF raised = NoExc THEN "returned" ELSE "raised"
               ELSE /\ raised' = o
                    /\ ret' = "raised"
            /\ pc' = "done"
    ELSE /\ log' = log
         /\ raised' = raised
         /\ ret' = IF raised = NoExc THEN "returned" ELSE "raised"
         /\ pc' = "done"

(***************************************************************************)
(* protocol.py: build_spp_command, called with one argument list.          *)
(***************************************************************************)
Call_build_spp_command ==
    /\ pc = "idle"
    /\ \E cid \in BuildIds, ps \in ParamLists :
          LET r == build_spp_command(cid, ps)
          IN  /\ op' = "build_spp_command"
              /\ command_id' = cid
              /\ params' = ps
              /\ retBytes' = r.bytes
              /\ raised' = r.exc
              /\ ret' = IF r.exc = NoExc THEN "returned" ELSE "raised"
    /\ pc' = "done"
    /\ UNCHANGED <<cliv, result, name, hasAF, command, command_ids, channel, sock, idx,
                   results, resp,
                   retBool, retVal, log>>

(***************************************************************************)
(* spp.py: set_speaker_name.                                               *)
(***************************************************************************)
\* line 223: entry
Call_set_speaker_name ==
    /\ pc = "idle"
    /\ \E s \in Names, af \in BOOLEAN :
          /\ name' = s
          /\ hasAF' = af
    /\ op' = "set_speaker_name"
    /\ pc' = "ssn_send"
    /\ UNCHANGED <<cliv, result, command_id, params, command, command_ids, channel, sock, idx,
                   results, resp, rets, log>>

\* lines 225-227: name_bytes = name.encode("utf-8")[:32];
\* cmd = build_spp_command(UECommand.SET_NAME, *name_bytes);
\* return send_spp_command(mac_address, cmd).  Nothing here catches an
\* exception; the result of send_spp_command is returned as it is.
ssn_send ==
    /\ pc = "ssn_send"
    /\ LET name_bytes == NameBytes(name)
           cmd        == build_spp_command(SET_NAME, name_bytes.bytes)
       IN  IF name_bytes.exc # NoExc
           THEN /\ Escapes(name_bytes.exc)
                /\ UNCHANGED <<op, command>>
           ELSE IF cmd.exc # NoExc
           THEN /\ Escapes(cmd.exc)
                /\ UNCHANGED <<op, command>>
           ELSE /\ command' = cmd.bytes
                /\ op' = "send_spp_command"
                /\ pc' = IF hasAF THEN "send_sdptool" ELSE "pyb_import"
                /\ UNCHANGED <<ret, raised>>
    /\ UNCHANGED <<cliv, result, name, hasAF, command_id, params, command_ids, channel, sock,
                   idx, results, resp, retBool, retVal, retBytes, log>>

(***************************************************************************)
(* spp.py: send_spp_command, native AF_BLUETOOTH transport.                *)
(***************************************************************************)
\* lines 34-43: entry and the capability check
Call_send_spp_command ==
    /\ pc = "idle"
    /\ \E c \in SendPackets, af \in BOOLEAN :
          /\ command' = c
          /\ hasAF' = af
          /\ pc' = IF af THEN "send_sdptool" ELSE "pyb_import"
    /\ op' = "send_spp_command"
    /\ UNCHANGED <<cliv, result, name, command_id, params, command_ids, channel, sock, idx,
                   results,
                   resp, rets, log>>

\* line 45 into _find_rfcomm_channel, lines 19-24: result = subprocess.run(
\* ["sdptool", "search", ...], timeout=10), which raises or prints lines
send_sdptool ==
    /\ pc = "send_sdptool"
    /\ \E tool \in ToolOutcomes : result' = tool
    /\ pc' = "send_lookup"
    /\ UNCHANGED <<cliv, name, op, hasAF, args, channel, sock, idx, results, resp, rets, log>>

\* lines 45-49: channel = _find_rfcomm_channel(...) or the default.  The call
\* is outside every try: what _find_rfcomm_channel lets through leaves the
\* function.
send_lookup ==
    /\ pc = "send_lookup"
    /\ result' = NoResult
    /\ LET r == _find_rfcomm_channel(result)
          IN  /\ log' = Append(log, Ev("sdptool", <<r.value>>, r.exc))
              /\ IF r.exc # NoExc
                 THEN /\ Escapes(r.exc)
                      /\ UNCHANGED channel
                 ELSE /\ channel' = ResolveChannel(r.value)
                      /\ pc' = "send_socket"
                      /\ UNCHANGED <<ret, raised>>
    /\ UNCHANGED <<cliv, name, op, hasAF, args, sock, idx, results, resp, retBool, retVal,
                   retBytes>>

\* lines 79-81: except Exception: return False
send_except(e) ==
    /\ IF Catches({"Exception"}, e)
       THEN /\ retBool' = FALSE
            /\ raised' = NoExc
       ELSE /\ retBool' = retBool
            /\ raised' = e
    /\ pc' = "send_finally"

\* the inner handler written as `except TimeoutError`
send_read_except_timeout_only(e) ==
    IF Catches({"TimeoutError"}, e)
    THEN /\ retBool' = TRUE
         /\ raised' = NoExc
         /\ pc' = "send_finally"
    ELSE send_except(e)

\* lines 72-73: except (TimeoutError, OSError): pass, then line 77 return True;
\* what the clause does not catch goes to the outer handler
send_read_except(e) ==
    IF Catches({"TimeoutError", "OSError"}, e)
    THEN /\ retBool' = TRUE
         /\ raised' = NoExc
         /\ pc' = "send_finally"
    ELSE send_except(e)

\* line 56
send_socket ==
    /\ pc = "send_socket"
    /\ \E o \in Ok(SocketFaults) :
          /\ log' = Append(log, Ev("socket", Empty, o))
          /\ IF o = NoExc
             THEN /\ sock' = TRUE
                  /\ pc' = "send_connect"
                  /\ UNCHANGED <<retBool, raised>>
             ELSE /\ sock' = sock
                  /\ send_except(o)
    /\ UNCHANGED <<cliv, result, name, op, hasAF, args, channel, idx, results, resp, ret,
                   retVal, retBytes>>

\* connect with its failure swallowed: the write is attempted anyway
send_connect_failure_ignored ==
    /\ pc = "send_connect"
    /\ \E o \in Ok(ConnectFaults) :
          log' = Append(log, Ev("connect", <<channel>>, o))
    /\ pc' = "send_write"
    /\ UNCHANGED <<cliv, result, name, op, hasAF, args, channel, sock, idx, results, resp, rets>>

\* line 57
send_connect ==
    /\ pc = "send_connect"
    /\ \E o \in Ok(ConnectFaults) :
          /\ log' = Append(log, Ev("connect", <<channel>>, o))
          /\ IF o = NoExc
             THEN /\ pc' = "send_write"
                  /\ UNCHANGED <<retBool, raised>>
             ELSE send_except(o)
    /\ UNCHANGED <<cliv, result, name, op, hasAF, args, channel, sock, idx, results, resp, ret,
                   retVal,
                   retBytes>>

\* the write without the settle delay: the read follows at once
send_write_unpaced ==
    /\ pc = "send_write"
    /\ \E o \in Ok(WriteFaults) :
          IF o = NoExc
          THEN /\ log' = Append(log, Ev("send", command, o))
               /\ pc' = "send_settimeout"
               /\ UNCHANGED <<retBool, raised>>
          ELSE /\ log' = Append(log, Ev("send", command, o))
               /\ send_except(o)
    /\ UNCHANGED <<cliv, result, name, op, hasAF, args, channel, sock, idx, results, resp, ret,
                   retVal, retBytes>>

\* lines 63-64: sock.send(command); time.sleep(0.3)
send_write ==
    /\ pc = "send_write"
    /\ \E o \in Ok(WriteFaults) :
          IF o = NoExc
          THEN /\ log' = log \o <<Ev("send", command, o), Ev("sleep", <<300>>, NoExc)>>
               /\ pc' = "send_settimeout"
               /\ UNCHANGED <<retBool, raised>>
          ELSE /\ log' = Append(log, Ev("send", command, o))
               /\ send_except(o)
    /\ UNCHANGED <<cliv, result, name, op, hasAF, args, channel, sock, idx, results, resp, ret,
                   retVal,
                   retBytes>>

\* line 67
send_settimeout ==
    /\ pc = "send_settimeout"
    /\ \E o \in Ok(TimeoutSetFaults) :
          /\ log' = Append(log, Ev("settimeout", <<1000>>, o))
          /\ IF o = NoExc
             THEN /\ pc' = "send_recv"
                  /\ UNCHANGED <<retBool, raised>>
             ELSE send_read_except(o)
    /\ UNCHANGED <<cliv, result, name, op, hasAF, args, channel, sock, idx, results, resp, ret,
                   retVal,
                   retBytes>>

\* lines 68-77: response = sock.recv(1024), printed only; return True
send_recv ==
    /\ pc = "send_recv"
    /\ \E o \in Ok(ReadFaults) :
          /\ log' = Append(log, Ev("recv", <<1024>>, o))
          /\ IF o = NoExc
             THEN /\ \E data \in SendResponses : resp' = data
                  /\ retBool' = TRUE
                  /\ raised' = NoExc
                  /\ pc' = "send_finally"
             ELSE /\ resp' = resp
                  /\ send_read_except(o)
    /\ UNCHANGED <<cliv, result, name, op, hasAF, args, channel, sock, idx, results, ret,
                   retVal, retBytes>>

\* lines 82-84
send_finally ==
    /\ pc = "send_finally"
    /\ Finally
    /\ UNCHANGED <<cliv, result, name, op, hasAF, args, channel, sock, idx, results, resp,
                   retBool, retVal,
                   retBytes>>

(***************************************************************************)
(* spp.py: _send_spp_pybluez, the fallback transport.                      *)
(***************************************************************************)
\* the import failure swallowed: the service lookup is attempted anyway
pyb_import_failure_ignored ==
    /\ pc = "pyb_import"
    /\ \E o \in Ok({"ImportError"}) : log' = Append(log, Ev("import", Empty, o))
    /\ pc' = "pyb_find_service"
    /\ UNCHANGED <<cliv, result, name, op, hasAF, args, channel, sock, idx, results, resp,
                   rets>>

\* lines 89-95: from bluetooth import ...; except ImportError: return False
pyb_import ==
    /\ pc = "pyb_import"
    /\ \E o \in Ok({"ImportError"}) :
          /\ log' = Append(log, Ev("import", Empty, o))
          /\ IF o = NoExc
             THEN /\ pc' = "pyb_find_service"
                  /\ UNCHANGED <<ret, retBool, raised>>
             ELSE IF Catches({"ImportError"}, o)
                  THEN /\ retBool' = FALSE
                       /\ ret' = "returned"
                       /\ raised' = NoExc
                       /\ pc' = "done"
                  ELSE /\ Escapes(o)
                       /\ UNCHANGED retBool
    /\ UNCHANGED <<cliv, result, name, op, hasAF, args, channel, sock, idx, results, resp,
                   retVal, retBytes>>

\* the fallback going on with the default channel when no service is found,
\* as the native transport does
pyb_find_service_defaults ==
    /\ pc = "pyb_find_service"
    /\ \E service_matches \in ServiceMatches :
          /\ log' = Append(log, Ev("find_service", service_matches, NoExc))
          /\ channel' = IF service_matches = Empty
                        THEN _DEFAULT_RFCOMM_CHANNEL
                        ELSE service_matches[1]
    /\ pc' = "pyb_socket"
    /\ UNCHANGED <<cliv, result, name, op, hasAF, args, sock, idx, results, resp, rets>>

\* lines 100-107: find_service is called outside every try; an empty result
\* returns False; otherwise the first match gives the port
pyb_find_service ==
    /\ pc = "pyb_find_service"
    /\ \E o \in Ok(LookupFaults) :
          IF o # NoExc
          THEN /\ log' = Append(log, Ev("find_service", Empty, o))
               /\ Escapes(o)
               /\ UNCHANGED <<channel, retBool>>
          ELSE \E service_matches \in ServiceMatches :
                  /\ log' = Append(log, Ev("find_service", service_matches, o))
                  /\ IF service_matches = Empty
                     THEN /\ retBool' = FALSE
                          /\ ret' = "returned"
                          /\ pc' = "done"
                          /\ UNCHANGED <<channel, raised>>
                     ELSE /\ channel' = service_matches[1]
                          /\ pc' = "pyb_socket"
                          /\ UNCHANGED <<ret, retBool, raised>>
    /\ UNCHANGED <<cliv, result, name, op, hasAF, args, sock, idx, results, resp, retVal,
                   retBytes>>

\* lines 136-138: except Exception: return False
pyb_except(e) ==
    /\ IF Catches({"Exception"}, e)
       THEN /\ retBool' = FALSE
            /\ raised' = NoExc
       ELSE /\ retBool' = retBool
            /\ raised' = e
    /\ pc' = "pyb_finally"

\* the fallback treating a read failure as a failed send
pyb_read_except_fails(e) == pyb_except(e)

\* lines 129-130: except Exception: pass, then line 134 return True
pyb_read_except(e) ==
    IF Catches({"Exception"}, e)
    THEN /\ retBool' = TRUE
         /\ raised' = NoExc
         /\ pc' = "pyb_finally"
    ELSE pyb_except(e)

\* line 113
pyb_socket ==
    /\ pc = "pyb_socket"
    /\ \E o \in Ok(SocketFaults) :
          /\ log' = Append(log, Ev("socket", Empty, o))
          /\ IF o = NoExc
             THEN /\ sock' = TRUE
                  /\ pc' = "pyb_connect"
                  /\ UNCHANGED <<retBool, raised>>
             ELSE /\ sock' = sock
                  /\ pyb_except(o)
    /\ UNCHANGED <<cliv, result, name, op, hasAF, args, channel, idx, results, resp, ret,
                   retVal, retBytes>>

\* the fallback's connect with its failure swallowed: the write goes ahead
pyb_connect_failure_ignored ==
    /\ pc = "pyb_connect"
    /\ \E o \in Ok(ConnectFaults) :
          log' = Append(log, Ev("connect", <<channel>>, o))
    /\ pc' = "pyb_write"
    /\ UNCHANGED <<cliv, result, name, op, hasAF, args, channel, sock, idx, results, resp, rets>>

\* line 114
pyb_connect ==
    /\ pc = "pyb_connect"
    /\ \E o \in Ok(ConnectFaults) :
          /\ log' = Append(log, Ev("connect", <<channel>>, o))
          /\ IF o = NoExc
             THEN /\ pc' = "pyb_write"
                  /\ UNCHANGED <<retBool, raised>>
             ELSE pyb_except(o)
    /\ UNCHANGED <<cliv, result, name, op, hasAF, args, channel, sock, idx, results, resp, ret,
                   retVal,
                   retBytes>>

\* lines 120-121
pyb_write ==
    /\ pc = "pyb_write"
    /\ \E o \in Ok(WriteFaults) :
          IF o = NoExc
          THEN /\ log' = log \o <<Ev("send", command, o), Ev("sleep", <<300>>, NoExc)>>
               /\ pc' = "pyb_settimeout"
               /\ UNCHANGED <<retBool, raised>>
          ELSE /\ log' = Append(log, Ev("send", command, o))
               /\ pyb_except(o)
    /\ UNCHANGED <<cliv, result, name, op, hasAF, args, channel, sock, idx, results, resp, ret,
                   retVal,
                   retBytes>>

\* line 124
pyb_settimeout ==
    /\ pc = "pyb_settimeout"
    /\ \E o \in Ok(TimeoutSetFaults) :
          /\ log' = Append(log, Ev("settimeout", <<1000>>, o))
          /\ IF o = NoExc
             THEN /\ pc' = "pyb_recv"
                  /\ UNCHANGED <<retBool, raised>>
             ELSE pyb_read_except(o)
    /\ UNCHANGED <<cliv, result, name, op, hasAF, args, channel, sock, idx, results, resp, ret,
                   retVal,
                   retBytes>>

\* lines 125-134
pyb_recv ==
    /\ pc = "pyb_recv"
    /\ \E o \in Ok(ReadFaults) :
          /\ log' = Append(log, Ev("recv", <<1024>>, o))
          /\ IF o = NoExc
             THEN /\ \E data \in SendResponses : resp' = data
                  /\ retBool' = TRUE
                  /\ raised' = NoExc
                  /\ pc' = "pyb_finally"
             ELSE /\ resp' = resp
                  /\ pyb_read_except(o)
    /\ UNCHANGED <<cliv, result, name, op, hasAF, args, channel, sock, idx, results, ret,
                   retVal, retBytes>>

\* lines 139-141
pyb_finally ==
    /\ pc = "pyb_finally"
    /\ Finally
    /\ UNCHANGED <<cliv, result, name, op, hasAF, args, channel, sock, idx, results, resp,
                   retBool, retVal,
                   retBytes>>

(***************************************************************************)
(* spp.py: query_spp_value.                                                *)
(***************************************************************************)
\* lines 144-153: entry; without AF_BLUETOOTH return None
Call_query_spp_value ==
    /\ pc = "idle"
    /\ \E cid \in QueryIds, af \in BOOLEAN :
          /\ command_id' = cid
          /\ hasAF' = af
          /\ IF af
             THEN /\ pc' = "qv_sdptool"
                  /\ UNCHANGED <<ret, retVal>>
             ELSE /\ retVal' = None
                  /\ ret' = "returned"
                  /\ pc' = "done"
    /\ op' = "query_spp_value"
    /\ UNCHANGED <<cliv, result, name, params, command, command_ids, channel, sock, idx,
                   results, resp,
                   retBool, retBytes, raised, log>>

\* line 155 into _find_rfcomm_channel, lines 19-24: result = subprocess.run(
\* ["sdptool", "search", ...], timeout=10), which raises or prints lines
qv_sdptool ==
    /\ pc = "qv_sdptool"
    /\ \E tool \in ToolOutcomes : result' = tool
    /\ pc' = "qv_lookup"
    /\ UNCHANGED <<cliv, name, op, hasAF, args, channel, sock, idx, results, resp, rets, log>>

\* lines 155-159: channel lookup, then query = bytes([0x02, 0x01, command_id]),
\* both outside the try
qv_lookup ==
    /\ pc = "qv_lookup"
    /\ result' = NoResult
    /\ LET r == _find_rfcomm_channel(result)
              query == QueryBytes(command_id)
          IN  /\ log' = Append(log, Ev("sdptool", <<r.value>>, r.exc))
              /\ IF r.exc # NoExc
                 THEN /\ Escapes(r.exc)
                      /\ UNCHANGED channel
                 ELSE IF query.exc # NoExc
                 THEN /\ Escapes(query.exc)
                      /\ channel' = ResolveChannel(r.value)
                 ELSE /\ channel' = ResolveChannel(r.value)
                      /\ pc' = "qv_socket"
                      /\ UNCHANGED <<ret, raised>>
    /\ UNCHANGED <<cliv, name, op, hasAF, args, sock, idx, results, resp, retBool, retVal,
                   retBytes>>

\* lines 173-174, 178: except Exception: pass ... return None
qv_except(e) ==
    /\ IF Catches({"Exception"}, e)
       THEN /\ retVal' = None
            /\ raised' = NoExc
       ELSE /\ retVal' = retVal
            /\ raised' = e
    /\ pc' = "qv_finally"

\* line 162
qv_socket ==
    /\ pc = "qv_socket"
    /\ \E o \in Ok(SocketFaults) :
          /\ log' = Append(log, Ev("socket", Empty, o))
          /\ IF o = NoExc
             THEN /\ sock' = TRUE
                  /\ pc' = "qv_connect"
                  /\ UNCHANGED <<retVal, raised>>
             ELSE /\ sock' = sock
                  /\ qv_except(o)
    /\ UNCHANGED <<cliv, result, name, op, hasAF, args, channel, idx, results, resp, ret,
                   retBool, retBytes>>

\* a failed connect attempted a second time before giving up
qv_connect_retried ==
    /\ pc = "qv_connect"
    /\ \E o \in Ok(ConnectFaults) :
          IF o = NoExc
          THEN /\ log' = log \o <<Ev("connect", <<channel>>, o),
                                  Ev("sleep", <<300>>, NoExc)>>
               /\ pc' = "qv_write"
               /\ UNCHANGED <<retVal, raised>>
          ELSE /\ log' = Append(log, Ev("connect", <<channel>>, o))
               /\ IF \A k \in DOMAIN log : log[k].ev # "connect"
                  THEN pc' = pc /\ UNCHANGED <<retVal, raised>>
                  ELSE qv_except(o)
    /\ UNCHANGED <<cliv, result, name, op, hasAF, args, channel, sock, idx, results, resp, ret,
                   retBool, retBytes>>

\* lines 163-164: sock.connect(...); time.sleep(0.3)
qv_connect ==
    /\ pc = "qv_connect"
    /\ \E o \in Ok(ConnectFaults) :
          IF o = NoExc
          THEN /\ log' = log \o <<Ev("connect", <<channel>>, o),
                                  Ev("sleep", <<300>>, NoExc)>>
               /\ pc' = "qv_write"
               /\ UNCHANGED <<retVal, raised>>
          ELSE /\ log' = Append(log, Ev("connect", <<channel>>, o))
               /\ qv_except(o)
    /\ UNCHANGED <<cliv, result, name, op, hasAF, args, channel, sock, idx, results, resp, ret,
                   retBool,
                   retBytes>>

\* the query written after the wait meant for the reply
qv_write_after_wait ==
    /\ pc = "qv_write"
    /\ \E o \in Ok(WriteFaults) :
          LET query == QueryBytes(command_id).bytes
          IN  IF o = NoExc
              THEN /\ log' = log \o <<Ev("sleep", <<500>>, NoExc), Ev("send", query, o)>>
                   /\ pc' = "qv_settimeout"
                   /\ UNCHANGED <<retVal, raised>>
              ELSE /\ log' = log \o <<Ev("sleep", <<500>>, NoExc), Ev("send", query, o)>>
                   /\ qv_except(o)
    /\ UNCHANGED <<cliv, result, name, op, hasAF, args, channel, sock, idx, results, resp, ret,
                   retBool, retBytes>>

\* lines 165-166: sock.send(query); time.sleep(0.5)
qv_write ==
    /\ pc = "qv_write"
    /\ \E o \in Ok(WriteFaults) :
          LET query == QueryBytes(command_id).bytes
          IN  IF o = NoExc
              THEN /\ log' = log \o <<Ev("send", query, o), Ev("sleep", <<500>>, NoExc)>>
                   /\ pc' = "qv_settimeout"
                   /\ UNCHANGED <<retVal, raised>>
              ELSE /\ log' = Append(log, Ev("send", query, o))
                   /\ qv_except(o)
    /\ UNCHANGED <<cliv, result, name, op, hasAF, args, channel, sock, idx, results, resp, ret,
                   retBool,
                   retBytes>>

\* line 167
qv_settimeout ==
    /\ pc = "qv_settimeout"
    /\ \E o \in Ok(TimeoutSetFaults) :
          /\ log' = Append(log, Ev("settimeout", <<2000>>, o))
          /\ IF o = NoExc
             THEN /\ pc' = "qv_recv"
                  /\ UNCHANGED <<retVal, raised>>
             ELSE qv_except(o)
    /\ UNCHANGED <<cliv, result, name, op, hasAF, args, channel, sock, idx, results, resp, ret,
                   retBool,
                   retBytes>>

\* lines 168-172 and 178: resp = sock.recv(1024); return the byte after the
\* first command_id found, or fall through to return None
qv_recv ==
    /\ pc = "qv_recv"
    /\ \E o \in Ok(ReadFaults) :
          /\ log' = Append(log, Ev("recv", <<1024>>, o))
          /\ IF o = NoExc
             THEN /\ \E data \in Responses :
                        /\ resp' = data
                        /\ retVal' = ScanResponse(data, command_id, 1)
                  /\ raised' = NoExc
                  /\ pc' = "qv_finally"
             ELSE /\ resp' = resp
                  /\ qv_except(o)
    /\ UNCHANGED <<cliv, result, name, op, hasAF, args, channel, sock, idx, results, ret,
                   retBool, retBytes>>

\* lines 175-177
qv_finally ==
    /\ pc = "qv_finally"
    /\ Finally
    /\ UNCHANGED <<cliv, result, name, op, hasAF, args, channel, sock, idx, results, resp,
                   retBool, retVal,
                   retBytes>>

(***************************************************************************)
(* spp.py: query_spp_values.                                               *)
(***************************************************************************)
\* results starting as an empty dict, filled only as values arrive
InitialResults_empty(ids) == [cid \in {} |-> None]

\* line 187: results = {cid: None for cid in command_ids}
InitialResults(ids) == [cid \in Range(ids) |-> None]

\* the batch going on to the channel lookup without native sockets
Call_query_spp_values_without_af_guard ==
    /\ pc = "idle"
    /\ \E ids \in IdSeqs, af \in BOOLEAN :
          /\ command_ids' = ids
          /\ hasAF' = af
          /\ results' = InitialResults(ids)
          /\ IF ids = Empty
             THEN /\ ret' = "returned"
                  /\ pc' = "done"
             ELSE /\ pc' = "qvs_sdptool"
                  /\ UNCHANGED ret
    /\ op' = "query_spp_values"
    /\ UNCHANGED <<cliv, result, name, command_id, params, command, channel, sock, idx, resp,
                   retBool,
                   retVal, retBytes, raised, log>>

\* lines 181-190: entry; without AF_BLUETOOTH or without ids return results
Call_query_spp_values ==
    /\ pc = "idle"
    /\ \E ids \in IdSeqs, af \in BOOLEAN :
          /\ command_ids' = ids
          /\ hasAF' = af
          /\ results' = InitialResults(ids)
          /\ IF (~af) \/ ids = Empty
             THEN /\ ret' = "returned"
                  /\ pc' = "done"
             ELSE /\ pc' = "qvs_sdptool"
                  /\ UNCHANGED ret
    /\ op' = "query_spp_values"
    /\ UNCHANGED <<cliv, result, name, command_id, params, command, channel, sock, idx, resp,
                   retBool,
                   retVal, retBytes, raised, log>>

\* line 192 into _find_rfcomm_channel, lines 19-24: result = subprocess.run(
\* ["sdptool", "search", ...], timeout=10), which raises or prints lines
qvs_sdptool ==
    /\ pc = "qvs_sdptool"
    /\ \E tool \in ToolOutcomes : result' = tool
    /\ pc' = "qvs_lookup"
    /\ UNCHANGED <<cliv, name, op, hasAF, args, channel, sock, idx, results, resp, rets, log>>

\* lines 192-194
qvs_lookup ==
    /\ pc = "qvs_lookup"
    /\ result' = NoResult
    /\ LET r == _find_rfcomm_channel(result)
          IN  /\ log' = Append(log, Ev("sdptool", <<r.value>>, r.exc))
              /\ IF r.exc # NoExc
                 THEN /\ Escapes(r.exc)
                      /\ UNCHANGED channel
                 ELSE /\ channel' = ResolveChannel(r.value)
                      /\ pc' = "qvs_socket"
                      /\ UNCHANGED <<ret, raised>>
    /\ UNCHANGED <<cliv, name, op, hasAF, args, sock, idx, results, resp, retBool, retVal,
                   retBytes>>

\* lines 215-216: except Exception: pass
qvs_except(e) ==
    /\ raised' = IF Catches({"Exception"}, e) THEN NoExc ELSE e
    /\ pc' = "qvs_finally"

\* the loop opening a new socket and connection for every further command id
qvs_next_reconnect ==
    IF idx < Len(command_ids)
    THEN /\ idx' = idx + 1
         /\ pc' = "qvs_socket"
    ELSE /\ idx' = idx
         /\ pc' = "qvs_finally"

\* the for statement of line 202: the next command id, or the end of the loop
qvs_next ==
    IF idx < Len(command_ids)
    THEN /\ idx' = idx + 1
         /\ pc' = "qvs_write"
    ELSE /\ idx' = idx
         /\ pc' = "qvs_finally"

\* a read failure handled like any other failure: the batch is abandoned
qvs_read_except_aborts(e) ==
    /\ qvs_except(e)
    /\ idx' = idx

\* lines 213-214: except (TimeoutError, OSError): pass, on to the next id;
\* what the clause does not catch goes to the outer handler
qvs_read_except(e) ==
    IF Catches({"TimeoutError", "OSError"}, e)
    THEN /\ qvs_next
         /\ raised' = NoExc
    ELSE /\ qvs_except(e)
         /\ idx' = idx

\* line 198
qvs_socket ==
    /\ pc = "qvs_socket"
    /\ \E o \in Ok(SocketFaults) :
          /\ log' = Append(log, Ev("socket", Empty, o))
          /\ IF o = NoExc
             THEN /\ sock' = TRUE
                  /\ pc' = "qvs_connect"
                  /\ UNCHANGED raised
             ELSE /\ sock' = sock
                  /\ qvs_except(o)
    /\ UNCHANGED <<cliv, result, name, op, hasAF, args, channel, idx, results, resp, ret,
                   retBool, retVal,
                   retBytes>>

\* connect with its failure swallowed: the loop starts anyway
qvs_connect_failure_ignored ==
    /\ pc = "qvs_connect"
    /\ \E o \in Ok(ConnectFaults) :
          log' = Append(log, Ev("connect", <<channel>>, o))
    /\ idx' = 1
    /\ pc' = "qvs_write"
    /\ UNCHANGED <<cliv, result, name, op, hasAF, args, channel, sock, results, resp, rets>>

\* lines 199-202: sock.connect(...); time.sleep(0.3); the loop starts (the
\* list is not empty here)
qvs_connect ==
    /\ pc = "qvs_connect"
    /\ \E o \in Ok(ConnectFaults) :
          IF o = NoExc
          THEN /\ log' = log \o <<Ev("connect", <<channel>>, o),
                                  Ev("sleep", <<300>>, NoExc)>>
               /\ idx' = 1
               /\ pc' = "qvs_write"
               /\ UNCHANGED raised
          ELSE /\ log' = Append(log, Ev("connect", <<channel>>, o))
               /\ idx' = idx
               /\ qvs_except(o)
    /\ UNCHANGED <<cliv, result, name, op, hasAF, args, channel, sock, results, resp, ret,
                   retBool, retVal,
                   retBytes>>

\* the next query written without the pacing delay
qvs_write_unpaced ==
    /\ pc = "qvs_write"
    /\ command_id' = command_ids[idx]
    /\ LET query == QueryBytes(command_ids[idx])
       IN  IF query.exc # NoExc
           THEN /\ log' = log
                /\ qvs_except(query.exc)
           ELSE \E o \in Ok(WriteFaults) :
                   IF o = NoExc
                   THEN /\ log' = Append(log, Ev("send", query.bytes, o))
                        /\ pc' = "qvs_settimeout"
                        /\ UNCHANGED raised
                   ELSE /\ log' = Append(log, Ev("send", query.bytes, o))
                        /\ qvs_except(o)
    /\ UNCHANGED <<cliv, result, name, op, hasAF, params, command, command_ids, channel, sock,
                   idx, results, resp, ret, retBool, retVal, retBytes>>

\* lines 202-205: command_id = command_ids[idx]; query = bytes([2, 1, command_id]);
\* sock.send(query); time.sleep(1.0).  The send is outside the inner try.
qvs_write ==
    /\ pc = "qvs_write"
    /\ command_id' = command_ids[idx]
    /\ LET query == QueryBytes(command_ids[idx])
       IN  IF query.exc # NoExc
           THEN /\ log' = log
                /\ qvs_except(query.exc)
           ELSE \E o \in Ok(WriteFaults) :
                   IF o = NoExc
                   THEN /\ log' = log \o <<Ev("send", query.bytes, o),
                                           Ev("sleep", <<1000>>, NoExc)>>
                        /\ pc' = "qvs_settimeout"
                        /\ UNCHANGED raised
                   ELSE /\ log' = Append(log, Ev("send", query.bytes, o))
                        /\ qvs_except(o)
    /\ UNCHANGED <<cliv, result, name, op, hasAF, params, command, command_ids, channel, sock,
                   idx, results,
                   resp, ret, retBool, retVal, retBytes>>

\* line 207
qvs_settimeout ==
    /\ pc = "qvs_settimeout"
    /\ \E o \in Ok(TimeoutSetFaults) :
          /\ log' = Append(log, Ev("settimeout", <<2000>>, o))
          /\ IF o = NoExc
             THEN /\ pc' = "qvs_recv"
                  /\ UNCHANGED <<idx, raised>>
             ELSE qvs_read_except(o)
    /\ UNCHANGED <<cliv, result, name, op, hasAF, args, channel, sock, results, resp, ret,
                   retBool, retVal,
                   retBytes>>

\* the response scanned for every requested id, not only the one just queried
qvs_recv_scans_all_ids ==
    /\ pc = "qvs_recv"
    /\ \E o \in Ok(ReadFaults) :
          /\ log' = Append(log, Ev("recv", <<1024>>, o))
          /\ IF o = NoExc
             THEN /\ \E data \in Responses :
                        /\ resp' = data
                        /\ results' = [cid \in DOMAIN results |->
                                          IF ScanResponse(data, cid, 1) # None
                                          THEN ScanResponse(data, cid, 1)
                                          ELSE results[cid]]
                  /\ qvs_next
                  /\ raised' = NoExc
             ELSE /\ UNCHANGED <<resp, results>>
                  /\ qvs_read_except(o)
    /\ UNCHANGED <<cliv, result, name, op, hasAF, args, channel, sock, ret, retBool, retVal,
                   retBytes>>

\* the entry overwritten by whatever the scan yields, absent included
qvs_recv_resets_entry ==
    /\ pc = "qvs_recv"
    /\ \E o \in Ok(ReadFaults) :
          /\ log' = Append(log, Ev("recv", <<1024>>, o))
          /\ IF o = NoExc
             THEN /\ \E data \in Responses :
                        /\ resp' = data
                        /\ results' = [results EXCEPT
                                         ![command_id] = ScanResponse(data, command_id, 1)]
                  /\ qvs_next
                  /\ raised' = NoExc
             ELSE /\ UNCHANGED <<resp, results>>
                  /\ qvs_read_except(o)
    /\ UNCHANGED <<cliv, result, name, op, hasAF, args, channel, sock, ret, retBool, retVal,
                   retBytes>>

\* lines 208-212: resp = sock.recv(1024); the first command_id found followed
\* by a byte sets results[command_id]
qvs_recv ==
    /\ pc = "qvs_recv"
    /\ \E o \in Ok(ReadFaults) :
          /\ log' = Append(log, Ev("recv", <<1024>>, o))
          /\ IF o = NoExc
             THEN /\ \E data \in Responses :
                        LET v == ScanResponse(data, command_id, 1)
                        IN  /\ resp' = data
                            /\ results' = IF v # None
                                          THEN [results EXCEPT ![command_id] = v]
                                          ELSE results
                  /\ qvs_next
                  /\ raised' = NoExc
             ELSE /\ UNCHANGED <<resp, results>>
                  /\ qvs_read_except(o)
    /\ UNCHANGED <<cliv, result, name, op, hasAF, args, channel, sock, ret, retBool, retVal,
                   retBytes>>

\* lines 217-220
qvs_finally ==
    /\ pc = "qvs_finally"
    /\ Finally
    /\ UNCHANGED <<cliv, result, name, op, hasAF, args, channel, sock, idx, results, resp,
                   retBool, retVal,
                   retBytes>>

(***************************************************************************)
(* The caller goes on to its next call.                                    *)
(***************************************************************************)
Return ==
    /\ pc = "done"
    /\ main_pc = "none"
    /\ UNCHANGED cliv
    /\ op' = "none"
    /\ pc' = "idle"
    /\ hasAF' = FALSE
    /\ command_id' = None
    /\ params' = Empty
    /\ command' = Empty
    /\ command_ids' = Empty
    /\ channel' = None
    /\ sock' = FALSE
    /\ idx' = 0
    /\ results' = Empty
    /\ resp' = Empty
    /\ ret' = "none"
    /\ retBool' = FALSE
    /\ retVal' = None
    /\ retBytes' = Empty
    /\ raised' = NoExc
    /\ result' = NoResult
    /\ name' = NoName
    /\ log' = Empty

Next ==
    \/ Call_build_spp_command
    \/ Call_send_spp_command
    \/ send_sdptool
    \/ send_lookup
    \/ send_socket
    \/ send_connect
    \/ send_write
    \/ send_settimeout
    \/ send_recv
    \/ send_finally
    \/ pyb_import
    \/ pyb_find_service
    \/ pyb_socket
    \/ pyb_connect
    \/ pyb_write
    \/ pyb_settimeout
    \/ pyb_recv
    \/ pyb_finally
    \/ Call_set_speaker_name
    \/ ssn_send
    \/ Call_query_spp_value
    \/ qv_sdptool
    \/ qv_lookup
    \/ qv_socket
    \/ qv_connect
    \/ qv_write
    \/ qv_settimeout
    \/ qv_recv
    \/ qv_finally
    \/ Call_query_spp_values
    \/ qvs_sdptool
    \/ qvs_lookup
    \/ qvs_socket
    \/ qvs_connect
    \/ qvs_write
    \/ qvs_settimeout
    \/ qvs_recv
    \/ qvs_finally
    \/ Return

Spec == Init /\ [][Next]_vars

(***************************************************************************)
(* cli.py: main.  While main or a function of cli.py itself runs, pc is    *)
(* "main"; while a function of spp.py runs for it, pc is that function's   *)
(* position and main waits at main_pc for pc = "done".                     *)
(***************************************************************************)
\* a call of a function of spp.py: its frame starts fresh
FreshFrame(fn, c, ids, nm) ==
    /\ op' = fn
    /\ command' = c
    /\ command_ids' = ids
    /\ name' = nm
    /\ command_id' = None
    /\ params' = Empty
    /\ channel' = None
    /\ sock' = FALSE
    /\ idx' = 0
    /\ resp' = Empty
    /\ retBool' = FALSE
    /\ retVal' = None
    /\ retBytes' = Empty
    /\ raised' = NoExc
    /\ result' = NoResult
    /\ log' = Empty
    /\ UNCHANGED hasAF

\* send_spp_command(mac, c), lines 34-43 of spp.py
CallSend(c) ==
    /\ FreshFrame("send_spp_command", c, Empty, NoName)
    /\ results' = Empty
    /\ ret' = "none"
    /\ pc' = IF hasAF THEN "send_sdptool" ELSE "pyb_import"

\* set_speaker_name(mac, nm), line 223 of spp.py
CallSetName(nm) ==
    /\ FreshFrame("set_speaker_name", Empty, Empty, nm)
    /\ results' = Empty
    /\ ret' = "none"
    /\ pc' = "ssn_send"

\* query_spp_values(mac, ids), lines 181-190 of spp.py
CallQuery(ids) ==
    /\ FreshFrame("query_spp_values", Empty, ids, NoName)
    /\ results' = InitialResults(ids)
    /\ IF (~hasAF) \/ ids = Empty
       THEN ret' = "returned" /\ pc' = "done"
       ELSE ret' = "none" /\ pc' = "qvs_sdptool"

\* the callee's frame is gone; main runs again
BackInMain ==
    /\ FreshFrame("none", Empty, Empty, NoName)
    /\ results' = Empty
    /\ ret' = "none"
    /\ pc' = "main"

\* no function of spp.py is touched by this step of main
InMain ==
    /\ pc = "main"
    /\ UNCHANGED <<op, pc, hasAF, command_id, params, command, command_ids, channel,
                   sock, idx, results, resp, ret, retBool, retVal, retBytes, raised,
                   result, name, log>>

\* an exception leaves main: nothing in main catches anything
MainRaises(e) ==
    /\ main_raised' = e
    /\ main_pc' = "exit"

\* main returns
MainReturns ==
    /\ main_raised' = NoExc
    /\ main_pc' = "exit"

\* the branch of the if / elif chain of lines 203-253 that runs
Branch(a) ==
    IF a.status THEN "status"
    ELSE IF a.battery THEN "battery"
    ELSE IF a.eq # "" THEN "eq"
    ELSE IF a.stereo_setup THEN "stereo_setup"
    ELSE IF a.stereo # "" THEN "stereo"
    ELSE IF a.mode # "" THEN "mode"
    ELSE IF a.alerts # "" THEN "alerts"
    ELSE IF a.ble # "" THEN "ble"
    ELSE IF a.volume # "" THEN "volume"
    ELSE IF a.name \notin {NoName, Empty} THEN "name"
    ELSE IF a.raw # Empty THEN "raw"
    ELSE IF a.interactive THEN "interactive"
    ELSE "help"

\* the f-strings f"eq_{...}", f"mode_{...}", f"role_{...}", f"alerts_{...}",
\* f"ble_{...}", f"volume_{...}"
Key(prefix, v) ==
    CASE prefix = "eq" /\ v = "outloud"   -> "eq_outloud"
      [] prefix = "eq" /\ v = "intimate"  -> "eq_intimate"
      [] prefix = "eq" /\ v = "vocals"    -> "eq_vocals"
      [] prefix = "eq" /\ v = "off"       -> "eq_off"
      [] prefix = "mode" /\ v = "stereo"  -> "mode_stereo"
      [] prefix = "mode" /\ v = "double"  -> "mode_double"
      [] prefix = "role" /\ v = "left"    -> "role_left"
      [] prefix = "role" /\ v = "right"   -> "role_right"
      [] prefix = "alerts" /\ v = "on"    -> "alerts_on"
      [] prefix = "alerts" /\ v = "off"   -> "alerts_off"
      [] prefix = "ble" /\ v = "on"       -> "ble_on"
      [] prefix = "ble" /\ v = "off"      -> "ble_off"
      [] prefix = "volume" /\ v = "up"    -> "volume_up"
      [] prefix = "volume" /\ v = "down"  -> "volume_down"

\* lines 113-171: the process starts and the command line is parsed
Call_main ==
    /\ pc = "idle"
    /\ main_pc = "none"
    /\ \E a \in ArgSets, af \in BOOLEAN :
          /\ cli_args' = a
          /\ hasAF' = af
    /\ main_pc' = "parsed"
    /\ pc' = "main"
    /\ UNCHANGED <<op, command_id, params, command, command_ids, channel, sock, idx,
                   results, resp, ret, retBool, retVal, retBytes, raised, result, name,
                   log, mac, stereo_sent, role_name, prompts, main_raised, trace>>

\* lines 173-183: --list
main_list ==
    /\ main_pc = "parsed"
    /\ cli_args.list
    /\ InMain
    /\ \E tool \in PairedOutcomes :
          LET r == get_paired_ue_devices(tool)
              n == Len(r.devices)
          IN  IF r.exc # NoExc
              THEN /\ MainRaises(r.exc)
                   /\ trace' = trace
              ELSE /\ MainReturns
                   /\ trace' = trace \o <<Found(r.devices),
                                          Printed(IF n > 0 THEN "found" ELSE "no_paired")>>
    /\ UNCHANGED <<cli_args, mac, stereo_sent, role_name, prompts>>

\* the first paired speaker taken when several are found
main_autodetect_takes_first ==
    /\ main_pc = "parsed"
    /\ ~cli_args.list
    /\ InMain
    /\ IF cli_args.mac # NoMac
       THEN /\ mac' = cli_args.mac
            /\ main_pc' = "dispatch"
            /\ UNCHANGED <<main_raised, trace>>
       ELSE \E tool \in PairedOutcomes :
               LET r == get_paired_ue_devices(tool)
                   n == Len(r.devices)
               IN  IF r.exc # NoExc
                   THEN /\ MainRaises(r.exc)
                        /\ UNCHANGED <<mac, trace>>
                   ELSE IF n >= 1
                   THEN /\ mac' = r.devices[1]
                        /\ trace' = trace \o <<Found(r.devices), Printed("auto_detected")>>
                        /\ main_pc' = "dispatch"
                        /\ UNCHANGED main_raised
                   ELSE /\ trace' = trace \o <<Found(r.devices), Printed("help")>>
                        /\ MainReturns
                        /\ UNCHANGED mac
    /\ UNCHANGED <<cli_args, stereo_sent, role_name, prompts>>

\* lines 185-200: the address given, or the only paired speaker's
main_autodetect ==
    /\ main_pc = "parsed"
    /\ ~cli_args.list
    /\ InMain
    /\ IF cli_args.mac # NoMac
       THEN /\ mac' = cli_args.mac
            /\ main_pc' = "dispatch"
            /\ UNCHANGED <<main_raised, trace>>
       ELSE \E tool \in PairedOutcomes :
               LET r == get_paired_ue_devices(tool)
                   n == Len(r.devices)
               IN  IF r.exc # NoExc
                   THEN /\ MainRaises(r.exc)
                        /\ UNCHANGED <<mac, trace>>
                   ELSE IF n = 1
                   THEN /\ mac' = r.devices[1]
                        /\ trace' = trace \o <<Found(r.devices), Printed("auto_detected")>>
                        /\ main_pc' = "dispatch"
                        /\ UNCHANGED main_raised
                   ELSE /\ trace' = trace \o
                              <<Found(r.devices), Printed(IF n > 1 THEN "multiple" ELSE "help")>>
                        /\ MainReturns
                        /\ UNCHANGED mac
    /\ UNCHANGED <<cli_args, stereo_sent, role_name, prompts>>

\* get_device_status returned; text is what status.get("connected") will find
StatusRead(info) ==
    [Returned("get_device_status", TRUE, NoExc) EXCEPT
        !.text = IF "connected" \in DOMAIN info
                 THEN (IF info["connected"] THEN "yes" ELSE "no")
                 ELSE "missing"]

\* the values queried without looking at the connected field
main_status_queries_always ==
    /\ main_pc = "dispatch"
    /\ Branch(cli_args) = "status"
    /\ pc = "main"
    /\ \E tool \in StatusOutcomes :
          LET r == get_device_status(tool)
              called == Called("get_device_status", mac, Empty)
              ids == <<EQ_PRESET, SONIFICATION, VOLUME_ADJUST>>
          IN  IF r.exc # NoExc
              THEN /\ MainRaises(r.exc)
                   /\ trace' = trace \o <<called, Returned("get_device_status", FALSE, r.exc)>>
                   /\ InMain
              ELSE /\ main_pc' = "status_values"
                   /\ trace' = trace \o <<called, StatusRead(r.info),
                                          Printed("status"),
                                          Called("query_spp_values", mac, ids)>>
                   /\ CallQuery(ids)
                   /\ UNCHANGED main_raised
    /\ UNCHANGED <<cli_args, mac, stereo_sent, role_name, prompts>>

\* lines 203-205 and _print_status, lines 17-44: the status record is read
\* and printed; a connected speaker is then queried
main_status ==
    /\ main_pc = "dispatch"
    /\ Branch(cli_args) = "status"
    /\ pc = "main"
    /\ \E tool \in StatusOutcomes :
          LET r == get_device_status(tool)
              called == Called("get_device_status", mac, Empty)
              ids == <<EQ_PRESET, SONIFICATION, VOLUME_ADJUST>>
          IN  IF r.exc # NoExc
              THEN /\ MainRaises(r.exc)
                   /\ trace' = trace \o <<called, Returned("get_device_status", FALSE, r.exc)>>
                   /\ InMain
              ELSE IF ~Get(r.info, "connected", FALSE)
              THEN /\ MainReturns
                   /\ trace' = trace \o <<called, StatusRead(r.info),
                                          Printed("status"), Printed("connect_hint")>>
                   /\ InMain
              ELSE /\ main_pc' = "status_values"
                   /\ trace' = trace \o <<called, StatusRead(r.info),
                                          Printed("status"),
                                          Called("query_spp_values", mac, ids)>>
                   /\ CallQuery(ids)
                   /\ UNCHANGED main_raised
    /\ UNCHANGED <<cli_args, mac, stereo_sent, role_name, prompts>>

\* the values query_spp_values found, each printed when it is not None
ValuePrints(values) ==
    (IF values[EQ_PRESET] # None THEN <<Printed("eq")>> ELSE Empty)
    \o (IF values[SONIFICATION] # None THEN <<Printed("alerts")>> ELSE Empty)
    \o (IF values[VOLUME_ADJUST] # None THEN <<Printed("volume")>> ELSE Empty)

\* _print_status, lines 46-56, then line 205
print_status_values ==
    /\ main_pc = "status_values"
    /\ pc = "done"
    /\ IF ret = "raised"
       THEN /\ MainRaises(raised)
            /\ trace' = Append(trace, Returned("query_spp_values", FALSE, raised))
       ELSE /\ MainReturns
            /\ trace' = trace \o <<Returned("query_spp_values", TRUE, NoExc)>>
                               \o ValuePrints(results)
    /\ BackInMain
    /\ UNCHANGED <<cli_args, mac, stereo_sent, role_name, prompts>>

\* lines 208-214: --battery
main_battery ==
    /\ main_pc = "dispatch"
    /\ Branch(cli_args) = "battery"
    /\ InMain
    /\ \E tool \in BatteryOutcomes :
          LET r == get_battery(tool)
              called == Called("get_battery", mac, Empty)
          IN  IF r.exc # NoExc
              THEN /\ MainRaises(r.exc)
                   /\ trace' = trace \o <<called, Returned("get_battery", FALSE, r.exc)>>
              ELSE /\ MainReturns
                   /\ trace' = trace \o
                         <<called, Returned("get_battery", TRUE, NoExc),
                           Printed(IF r.level >= 0 THEN "battery" ELSE "no_battery")>>
    /\ UNCHANGED <<cli_args, mac, stereo_sent, role_name, prompts>>

\* COMMANDS[key] looked up and sent with send_spp_command; KeyError for a
\* key the table does not have
SendCommand(key, next_pc, before) ==
    IF key \in DOMAIN COMMANDS
    THEN /\ CallSend(COMMANDS[key])
         /\ trace' = trace \o before \o <<Called("send_spp_command", mac, COMMANDS[key])>>
         /\ main_pc' = next_pc
         /\ UNCHANGED main_raised
    ELSE /\ MainRaises("KeyError")
         /\ InMain
         /\ trace' = trace \o before

\* lines 217-218, 230-240: --eq, --mode, --alerts, --ble, --volume
main_option ==
    /\ main_pc = "dispatch"
    /\ pc = "main"
    /\ LET b == Branch(cli_args)
       IN  /\ b \in {"eq", "mode", "alerts", "ble", "volume"}
           /\ SendCommand(Key(b, cli_args[b]), "last_call", Empty)
    /\ UNCHANGED <<cli_args, mac, stereo_sent, role_name, prompts>>

\* lines 223-225: --stereo, the mode first
main_stereo ==
    /\ main_pc = "dispatch"
    /\ pc = "main"
    /\ Branch(cli_args) = "stereo"
    /\ SendCommand("mode_stereo", "stereo_role", <<Printed("setting_mode")>>)
    /\ UNCHANGED <<cli_args, mac, stereo_sent, role_name, prompts>>

\* lines 225-228: the result of the mode command is not looked at; after
\* time.sleep(0.5) the role is sent
main_stereo_role ==
    /\ main_pc = "stereo_role"
    /\ pc = "done"
    /\ IF ret = "raised"
       THEN /\ MainRaises(raised)
            /\ trace' = Append(trace, Returned("send_spp_command", FALSE, raised))
            /\ BackInMain
       ELSE LET key == Key("role", cli_args.stereo)
            IN  /\ CallSend(COMMANDS[key])
                /\ trace' = trace \o <<Returned("send_spp_command", retBool, NoExc),
                                       Called("send_spp_command", mac, COMMANDS[key])>>
                /\ main_pc' = "last_call"
                /\ UNCHANGED main_raised
    /\ UNCHANGED <<cli_args, mac, stereo_sent, role_name, prompts>>

\* lines 242-243: --name
main_name ==
    /\ main_pc = "dispatch"
    /\ pc = "main"
    /\ Branch(cli_args) = "name"
    /\ CallSetName(cli_args.name)
    /\ trace' = Append(trace, Called("set_speaker_name", mac, cli_args.name))
    /\ main_pc' = "last_call"
    /\ UNCHANGED <<cli_args, mac, stereo_sent, role_name, prompts, main_raised>>

\* lines 245-247: --raw
main_raw ==
    /\ main_pc = "dispatch"
    /\ pc = "main"
    /\ Branch(cli_args) = "raw"
    /\ LET raw_bytes == FromHex(cli_args.raw)
       IN  IF raw_bytes.exc # NoExc
           THEN /\ MainRaises(raw_bytes.exc)
                /\ InMain
                /\ UNCHANGED trace
           ELSE /\ CallSend(raw_bytes.bytes)
                /\ trace' = Append(trace, Called("send_spp_command", mac, raw_bytes.bytes))
                /\ main_pc' = "last_call"
                /\ UNCHANGED main_raised
    /\ UNCHANGED <<cli_args, mac, stereo_sent, role_name, prompts>>

\* lines 252-253: no option given
main_help ==
    /\ main_pc = "dispatch"
    /\ Branch(cli_args) = "help"
    /\ InMain
    /\ trace' = Append(trace, Printed("help"))
    /\ MainReturns
    /\ UNCHANGED <<cli_args, mac, stereo_sent, role_name, prompts>>

\* the value of the last call of a branch is dropped and main returns; an
\* exception of the call leaves main
main_last_call ==
    /\ main_pc = "last_call"
    /\ pc = "done"
    /\ IF ret = "raised"
       THEN /\ MainRaises(raised)
            /\ trace' = Append(trace, Returned(op, FALSE, raised))
       ELSE /\ MainReturns
            /\ trace' = Append(trace, Returned(op, retBool, NoExc))
    /\ BackInMain
    /\ UNCHANGED <<cli_args, mac, stereo_sent, role_name, prompts>>

(***************************************************************************)
(* cli.py: _stereo_setup_flow.  input() returns what the user typed or     *)
(* raises EOFError / KeyboardInterrupt.                                    *)
(***************************************************************************)
InputFaults == {"EOFError", "KeyboardInterrupt"}

\* what users type at the prompts of the flow
Answers == {"y", "Yes ", "n", "", "r", " RIGHT", "l", "left", "x"}

\* str.strip().lower() on these
StripLower(a) ==
    CASE a = "Yes "   -> "yes"
      [] a = " RIGHT" -> "right"
      [] OTHER        -> a

\* lines 107-110: except (KeyboardInterrupt, EOFError); anything else leaves
\* the flow and main
setup_except(e) ==
    IF Catches({"KeyboardInterrupt", "EOFError"}, e)
    THEN /\ trace' = trace \o <<Asked(main_pc, "", e), Printed("cancelled")>>
                           \o (IF stereo_sent THEN <<Printed("warning")>> ELSE Empty)
         /\ MainReturns
    ELSE /\ trace' = Append(trace, Asked(main_pc, "", e))
         /\ MainRaises(e)

\* the handler printing the warning whether or not the command went out
setup_confirm_warns_always ==
    /\ main_pc = "dispatch"
    /\ Branch(cli_args) = "stereo_setup"
    /\ pc = "main"
    /\ \/ \E e \in InputFaults :
             /\ trace' = trace \o <<Printed("setup"), Asked("confirm", "", e),
                                    Printed("cancelled"), Printed("warning")>>
             /\ MainReturns
             /\ InMain
       \/ \E a \in Answers :
             IF StripLower(a) \notin {"y", "yes"}
             THEN /\ trace' = trace \o <<Printed("setup"), Asked("confirm", a, NoExc),
                                         Printed("cancelled")>>
                  /\ MainReturns
                  /\ InMain
             ELSE /\ CallSend(COMMANDS["mode_stereo"])
                  /\ trace' = trace \o <<Printed("setup"), Asked("confirm", a, NoExc),
                                         Printed("step1"),
                                         Called("send_spp_command", mac,
                                                COMMANDS["mode_stereo"])>>
                  /\ main_pc' = "mode_sent"
                  /\ UNCHANGED main_raised
    /\ UNCHANGED <<cli_args, mac, stereo_sent, role_name, prompts>>

\* the confirmation taken as given whatever is typed
setup_confirm_always_yes ==
    /\ main_pc = "dispatch"
    /\ Branch(cli_args) = "stereo_setup"
    /\ pc = "main"
    /\ \/ \E e \in InputFaults :
             /\ trace' = trace \o <<Printed("setup"), Asked("confirm", "", e),
                                    Printed("cancelled")>>
             /\ MainReturns
             /\ InMain
       \/ \E a \in Answers :
             /\ CallSend(COMMANDS["mode_stereo"])
             /\ trace' = trace \o <<Printed("setup"), Asked("confirm", a, NoExc),
                                    Printed("step1"),
                                    Called("send_spp_command", mac,
                                           COMMANDS["mode_stereo"])>>
             /\ main_pc' = "mode_sent"
             /\ UNCHANGED main_raised
    /\ UNCHANGED <<cli_args, mac, stereo_sent, role_name, prompts>>

\* lines 220-221 and 61-72: the confirmation prompt, then the stereo-mode
\* command
setup_confirm ==
    /\ main_pc = "dispatch"
    /\ Branch(cli_args) = "stereo_setup"
    /\ pc = "main"
    /\ \/ \E e \in InputFaults :
             /\ trace' = trace \o <<Printed("setup"), Asked("confirm", "", e),
                                    Printed("cancelled")>>
                               \o (IF stereo_sent THEN <<Printed("warning")>> ELSE Empty)
             /\ MainReturns
             /\ InMain
       \/ \E a \in Answers :
             IF StripLower(a) \notin {"y", "yes"}
             THEN /\ trace' = trace \o <<Printed("setup"), Asked("confirm", a, NoExc),
                                         Printed("cancelled")>>
                  /\ MainReturns
                  /\ InMain
             ELSE /\ CallSend(COMMANDS["mode_stereo"])
                  /\ trace' = trace \o <<Printed("setup"), Asked("confirm", a, NoExc),
                                         Printed("step1"),
                                         Called("send_spp_command", mac,
                                                COMMANDS["mode_stereo"])>>
                  /\ main_pc' = "mode_sent"
                  /\ UNCHANGED main_raised
    /\ UNCHANGED <<cli_args, mac, stereo_sent, role_name, prompts>>

\* the role assigned even though the stereo-mode command failed
setup_mode_sent_failure_ignored ==
    /\ main_pc = "mode_sent"
    /\ pc = "done"
    /\ IF ret = "raised"
       THEN /\ MainRaises(raised)
            /\ trace' = Append(trace, Returned("send_spp_command", FALSE, raised))
            /\ UNCHANGED stereo_sent
       ELSE /\ stereo_sent' = TRUE
            /\ trace' = trace \o <<Returned("send_spp_command", retBool, NoExc),
                                   Printed("step2")>>
            /\ main_pc' = "wait"
            /\ UNCHANGED main_raised
    /\ BackInMain
    /\ UNCHANGED <<cli_args, mac, role_name, prompts>>

\* lines 72-84: a failed stereo-mode command ends the flow
setup_mode_sent ==
    /\ main_pc = "mode_sent"
    /\ pc = "done"
    /\ IF ret = "raised"
       THEN /\ MainRaises(raised)
            /\ trace' = Append(trace, Returned("send_spp_command", FALSE, raised))
            /\ UNCHANGED stereo_sent
       ELSE IF ~retBool
       THEN /\ MainReturns
            /\ trace' = trace \o <<Returned("send_spp_command", FALSE, NoExc),
                                   Printed("error_stereo")>>
            /\ UNCHANGED stereo_sent
       ELSE /\ stereo_sent' = TRUE
            /\ trace' = trace \o <<Returned("send_spp_command", TRUE, NoExc),
                                   Printed("step2")>>
            /\ main_pc' = "wait"
            /\ UNCHANGED main_raised
    /\ BackInMain
    /\ UNCHANGED <<cli_args, mac, role_name, prompts>>

\* line 85: input("Press Enter when both speakers have solid lights...")
setup_wait ==
    /\ main_pc = "wait"
    /\ InMain
    /\ \/ \E e \in InputFaults : setup_except(e)
       \/ /\ trace' = trace \o <<Asked("wait", "", NoExc), Printed("step3")>>
          /\ main_pc' = "role"
          /\ UNCHANGED main_raised
    /\ UNCHANGED <<cli_args, mac, stereo_sent, role_name, prompts>>

\* lines 88-100: the role prompt, time.sleep(1.0), the role command
setup_role ==
    /\ main_pc = "role"
    /\ pc = "main"
    /\ \/ \E e \in InputFaults :
             /\ setup_except(e)
             /\ InMain
             /\ UNCHANGED role_name
       \/ \E a \in Answers :
             LET role_input == StripLower(a)
                 known == role_input \in {"r", "right", "", "l", "left"}
                 role == IF role_input \in {"r", "right"} THEN "right" ELSE "left"
             IN  /\ role_name' = role
                 /\ CallSend(COMMANDS[Key("role", role)])
                 /\ trace' = trace \o <<Asked("role", a, NoExc)>>
                                   \o (IF known THEN Empty ELSE <<Printed("unrecognized")>>)
                                   \o <<Called("send_spp_command", mac,
                                               COMMANDS[Key("role", role)])>>
                 /\ main_pc' = "role_sent"
                 /\ UNCHANGED main_raised
    /\ UNCHANGED <<cli_args, mac, stereo_sent, prompts>>

\* lines 100-105
setup_role_sent ==
    /\ main_pc = "role_sent"
    /\ pc = "done"
    /\ IF ret = "raised"
       THEN /\ MainRaises(raised)
            /\ trace' = Append(trace, Returned("send_spp_command", FALSE, raised))
       ELSE IF ~retBool
       THEN /\ MainReturns
            /\ trace' = trace \o <<Returned("send_spp_command", FALSE, NoExc),
                                   Printed("error_role")>>
       ELSE /\ MainReturns
            /\ trace' = trace \o <<Returned("send_spp_command", TRUE, NoExc),
                                   Printed("assigned"), Printed("complete")>>
    /\ BackInMain
    /\ UNCHANGED <<cli_args, mac, stereo_sent, role_name, prompts>>

(***************************************************************************)
(* interactive.py: interactive_mode.                                       *)
(***************************************************************************)
\* lines 43-62
command_map ==
    [c \in {"1", "2", "3", "4", "5", "6", "7", "8", "9", "10", "11", "12", "13", "14",
            "15", "16", "17", "19"} |->
        CASE c = "1"  -> "eq_outloud"
          [] c = "2"  -> "eq_intimate"
          [] c = "3"  -> "eq_vocals"
          [] c = "4"  -> "eq_off"
          [] c = "5"  -> "mode_stereo"
          [] c = "6"  -> "mode_double"
          [] c = "7"  -> "role_left"
          [] c = "8"  -> "role_right"
          [] c = "9"  -> "doubleup_lock_on"
          [] c = "10" -> "doubleup_lock_off"
          [] c = "11" -> "battery_announce"
          [] c = "12" -> "volume_up"
          [] c = "13" -> "volume_down"
          [] c = "14" -> "alerts_on"
          [] c = "15" -> "alerts_off"
          [] c = "16" -> "ble_on"
          [] c = "17" -> "ble_off"
          [] c = "19" -> "sound_power_on"]

\* what users type at the menu prompt (already stripped), and the names
\* they type for choice 18
MenuChoices == {"0", "1", "5", "11", "18", "x"}

MenuNames == {Empty, <<77, 121, 66, 111, 111, 109>>}

\* lines 249-250 of cli.py, 9-41 of interactive.py: the menu is printed
main_interactive ==
    /\ main_pc = "dispatch"
    /\ Branch(cli_args) = "interactive"
    /\ InMain
    /\ trace' = Append(trace, Printed("menu"))
    /\ main_pc' = "prompt"
    /\ UNCHANGED <<cli_args, mac, stereo_sent, role_name, prompts, main_raised>>

\* lines 64-83: one turn of the loop.  The user quits at the latest at
\* prompt number MaxPrompts.
menu_prompt ==
    /\ main_pc = "prompt"
    /\ pc = "main"
    /\ prompts' = prompts + 1
    /\ \/ \E e \in InputFaults :
             /\ trace' = trace \o <<Asked("menu", "", e), Printed("goodbye")>>
             /\ MainReturns
             /\ InMain
       \/ \E choice \in MenuChoices :
             /\ prompts + 1 < MaxPrompts \/ choice = "0"
             /\ IF choice = "0"
                THEN /\ trace' = trace \o <<Asked("menu", choice, NoExc), Printed("goodbye")>>
                     /\ MainReturns
                     /\ InMain
                ELSE IF choice = "18"
                THEN /\ trace' = Append(trace, Asked("menu", choice, NoExc))
                     /\ main_pc' = "menu_name"
                     /\ InMain
                     /\ UNCHANGED main_raised
                ELSE IF choice \in DOMAIN command_map
                THEN SendCommand(command_map[choice], "menu_sent", <<Asked("menu", choice, NoExc)>>)
                ELSE /\ trace' = trace \o <<Asked("menu", choice, NoExc), Printed("invalid")>>
                     /\ main_pc' = "prompt"
                     /\ InMain
                     /\ UNCHANGED main_raised
    /\ UNCHANGED <<cli_args, mac, stereo_sent, role_name>>

\* lines 75-77: this input() is outside the try of line 65
menu_name ==
    /\ main_pc = "menu_name"
    /\ pc = "main"
    /\ \/ \E e \in InputFaults :
             /\ trace' = Append(trace, Asked("name", "", e))
             /\ MainRaises(e)
             /\ InMain
       \/ \E nm \in MenuNames :
             IF nm # Empty
             THEN /\ CallSetName(nm)
                  /\ trace' = trace \o <<[Asked("name", "", NoExc) EXCEPT !.cmd = nm],
                                         Called("set_speaker_name", mac, nm)>>
                  /\ main_pc' = "menu_sent"
                  /\ UNCHANGED main_raised
             ELSE /\ trace' = Append(trace, Asked("name", "", NoExc))
                  /\ main_pc' = "prompt"
                  /\ InMain
                  /\ UNCHANGED main_raised
    /\ UNCHANGED <<cli_args, mac, stereo_sent, role_name, prompts>>

\* lines 77, 81: the value of the call is dropped and the loop goes on
menu_sent ==
    /\ main_pc = "menu_sent"
    /\ pc = "done"
    /\ IF ret = "raised"
       THEN /\ MainRaises(raised)
            /\ trace' = Append(trace, Returned(op, FALSE, raised))
       ELSE /\ main_pc' = "prompt"
            /\ trace' = Append(trace, Returned(op, retBool, NoExc))
            /\ UNCHANGED main_raised
    /\ BackInMain
    /\ UNCHANGED <<cli_args, mac, stereo_sent, role_name, prompts>>

(***************************************************************************)
(* One run of the command-line program.                                    *)
(***************************************************************************)
CliNext ==
    \/ Call_main
    \/ main_list
    \/ main_autodetect
    \/ main_status
    \/ print_status_values
    \/ main_battery
    \/ main_option
    \/ main_stereo
    \/ main_stereo_role
    \/ main_name
    \/ main_raw
    \/ main_help
    \/ main_last_call
    \/ setup_confirm
    \/ setup_mode_sent
    \/ setup_wait
    \/ setup_role
    \/ setup_role_sent
    \/ main_interactive
    \/ menu_prompt
    \/ menu_name
    \/ menu_sent
    \/ ssn_send
    \/ send_sdptool
    \/ send_lookup
    \/ send_socket
    \/ send_connect
    \/ send_write
    \/ send_settimeout
    \/ send_recv
    \/ send_finally
    \/ pyb_import
    \/ pyb_find_service
    \/ pyb_socket
    \/ pyb_connect
    \/ pyb_write
    \/ pyb_settimeout
    \/ pyb_recv
    \/ pyb_finally
    \/ qvs_sdptool
    \/ qvs_lookup
    \/ qvs_socket
    \/ qvs_connect
    \/ qvs_write
    \/ qvs_settimeout
    \/ qvs_recv
    \/ qvs_finally

CliSpec == Init /\ [][CliNext]_vars




(***************************************************************************)
(* Reading the log.                                                        *)
(***************************************************************************)
SppOps == {"send_spp_command", "query_spp_value", "query_spp_values"}

Done(f) == pc = "done" /\ op = f

Entries(e) == {k \in DOMAIN log : log[k].ev = e}

Count(e) == Cardinality(Entries(e))

Succeeded(e) == \E k \in Entries(e) : log[k].out = NoExc

Failed(e) == \E k \in Entries(e) : log[k].out # NoExc

\* the exception leaving the call, if any, was raised by close() itself
OnlyCloseRaises ==
    ret = "raised" =>
        /\ log # Empty
        /\ log[Len(log)].ev = "close"
        /\ log[Len(log)].out # NoExc

(***************************************************************************)
(* C1: for command_id in 0..255 and n <= 253 parameters in 0..255,         *)
(* build_spp_command returns n+3 bytes: n+2, 0x01, command_id, then the    *)
(* parameters in order; (0x64,[1]) -> 03 01 64 01, (0x6B) -> 02 01 6B,     *)
(* (0xBB,[1,1]) -> 04 01 BB 01 01.                                         *)
(***************************************************************************)
C1_PacketLayout ==
    (/\ Done("build_spp_command")
     /\ command_id \in Byte
     /\ Len(params) <= 253
     /\ \A k \in DOMAIN params : params[k] \in Byte)
    => /\ ret = "returned"
       /\ Len(retBytes) = Len(params) + 3
       /\ retBytes[1] = Len(params) + 2
       /\ retBytes[2] = 1
       /\ retBytes[3] = command_id
       /\ \A k \in DOMAIN params : retBytes[3 + k] = params[k]
       /\ (command_id = EQ_PRESET /\ params = <<1>> => retBytes = <<3, 1, 100, 1>>)
       /\ (command_id = BATTERY_ANNOUNCE /\ params = Empty => retBytes = <<2, 1, 107>>)
       /\ (command_id = VOLUME_ADJUST /\ params = <<1, 1>>
              => retBytes = <<4, 1, 187, 1, 1>>)

C1_Witness ==
    /\ Done("build_spp_command")
    /\ command_id = VOLUME_ADJUST
    /\ Len(params) = 253
    /\ ret = "returned"
    /\ retBytes[1] = 255

(***************************************************************************)
(* C2: the extraction of query_spp_value and query_spp_values yields the   *)
(* byte right after the leftmost occurrence of the command id in the       *)
(* response, and nothing when the response is empty, the id does not       *)
(* occur, or its only occurrence is the last byte.                         *)
(***************************************************************************)
Occurrences(r, cid) == {k \in DOMAIN r : r[k] = cid}

Leftmost(r, cid) == CHOOSE k \in Occurrences(r, cid) : \A m \in Occurrences(r, cid) : k <= m

ByteAfterLeftmost(r, cid) ==
    IF Occurrences(r, cid) = {} THEN None
    ELSE IF Leftmost(r, cid) = Len(r) THEN None
    ELSE r[Leftmost(r, cid) + 1]

\* the step just taken is a recv that returned bytes
JustRead == log' # log /\ log'[Len(log')] = Ev("recv", <<1024>>, NoExc)

C2_Extraction ==
    [][/\ (pc = "qv_recv" /\ JustRead)
            => retVal' = ByteAfterLeftmost(resp', command_id)
       /\ (pc = "qvs_recv" /\ JustRead)
            => results' = IF ByteAfterLeftmost(resp', command_id) = None
                          THEN results
                          ELSE [results EXCEPT
                                  ![command_id] = ByteAfterLeftmost(resp', command_id)]
      ]_vars

C2_Witness ==
    /\ Done("query_spp_value")
    /\ command_id = EQ_PRESET
    /\ resp = <<EQ_PRESET, EQ_PRESET, 0>>
    /\ ret = "returned"
    /\ retVal = EQ_PRESET

(***************************************************************************)
(* C3: in send_spp_command (both transports), query_spp_value and          *)
(* query_spp_values a socket that was created is closed exactly once, as   *)
(* the last thing the call does, whatever path led there; no socket, no    *)
(* close.                                                                  *)
(***************************************************************************)
SocketsCreated == Cardinality({k \in Entries("socket") : log[k].out = NoExc})

C3_ClosedExactlyOnce ==
    /\ op \in SppOps => Count("close") <= SocketsCreated /\ SocketsCreated <= 1
    /\ (pc = "done" /\ op \in SppOps)
         => /\ Count("close") = SocketsCreated
            /\ SocketsCreated = 1 => log[Len(log)].ev = "close"

C3_Witness ==
    /\ Done("send_spp_command")
    /\ \E k \in Entries("send") : log[k].out = "OSError"
    /\ Count("close") = 1
    /\ ret = "returned"

(***************************************************************************)
(* C4: no exception leaves send_spp_command, query_spp_value or            *)
(* query_spp_values, whichever collaborator step raises.                   *)
(***************************************************************************)
C4_NoExceptionEscapes ==
    (pc = "done" /\ op \in SppOps) => ret = "returned" /\ raised = NoExc

C7_Original ==
    (Done("query_spp_values") /\ hasAF /\ command_ids # Empty /\ ret = "returned")
    => /\ Count("sdptool") = 1
       /\ Count("socket") = 1
       /\ Count("connect") = 1
       /\ Count("send") = Len(command_ids)

(***************************************************************************)
(* C7 amended: query_spp_values never does more than one channel lookup,   *)
(* one socket creation and one connect for a batch, whatever N is; it does *)
(* exactly one lookup when native sockets exist and N >= 1; every query    *)
(* goes out after that one connect succeeded; at most N queries go out,    *)
(* and exactly N when the connect succeeded and no write failed.           *)
(***************************************************************************)
C7_OneConnection ==
    op = "query_spp_values"
    => /\ Count("sdptool") <= 1
       /\ Count("socket") <= 1
       /\ Count("connect") <= 1
       /\ Count("send") <= Len(command_ids)
       /\ \A j \in Entries("send") :
             \E c \in Entries("connect") : c < j /\ log[c].out = NoExc
       /\ pc = "done"
            => /\ (hasAF /\ command_ids # Empty) => Count("sdptool") = 1
               /\ (~hasAF \/ command_ids = Empty) => log = Empty
               /\ (Succeeded("connect") /\ ~Failed("send"))
                     => Count("send") = Len(command_ids)

C7_Witness ==
    /\ Done("query_spp_values")
    /\ Len(command_ids) = MaxIds
    /\ Count("send") = MaxIds
    /\ Count("connect") = 1
    /\ Count("socket") = 1
    /\ Failed("recv")

(***************************************************************************)
(* C8 as stated: in query_spp_values no failure on a query - write         *)
(* failure, read timeout or read error - aborts the batch: once connected, *)
(* every one of the N queries is transmitted.                              *)
(***************************************************************************)
C8_Original ==
    (Done("query_spp_values") /\ Succeeded("connect"))
    => \A k \in 1..Len(command_ids) :
          \E j \in Entries("send") : log[j].arg = <<2, 1, command_ids[k]>>

(***************************************************************************)
(* C8 amended: a failure to set the read timeout, a read timeout or a read *)
(* error on the k-th query never aborts the batch: that query records      *)
(* nothing and the next query, if there is one, is transmitted right       *)
(* after.  A write failure on the k-th query does abort it: nothing but    *)
(* the close follows, and an id none of whose queries was answered is      *)
(* absent from the values.                                                 *)
(***************************************************************************)
SendsUpTo(j) == Cardinality({k \in Entries("send") : k <= j})

\* the reads that returned bytes, and the id each one answers: that of the
\* query transmitted last before it
AnsweredIds ==
    {command_ids[SendsUpTo(j)] : j \in {k \in Entries("recv") : log[k].out = NoExc}}

C8_ReadFailureContinues ==
    Done("query_spp_values")
    => /\ \A j \in DOMAIN log :
             (/\ log[j].ev \in {"settimeout", "recv"}
              /\ log[j].out # NoExc
              /\ SendsUpTo(j) < Len(command_ids))
             => /\ j < Len(log)
                /\ log[j + 1].ev = "send"
                /\ log[j + 1].arg = <<2, 1, command_ids[SendsUpTo(j) + 1]>>
       /\ \A j \in Entries("send") :
             log[j].out # NoExc => \A m \in DOMAIN log : m > j => log[m].ev = "close"
       /\ \A cid \in DOMAIN results : cid \notin AnsweredIds => results[cid] = None

C8_Witness ==
    /\ Done("query_spp_values")
    /\ Len(command_ids) = 2
    /\ command_ids[1] # command_ids[2]
    /\ \E j \in Entries("recv") : log[j].out = "TimeoutError" /\ SendsUpTo(j) = 1
    /\ results[command_ids[1]] = None
    /\ results[command_ids[2]] # None
    /\ ret = "returned"

(***************************************************************************)
(* C9 as stated: the mapping query_spp_values returns for N command ids    *)
(* has exactly N entries, each a byte or absent.                           *)
(***************************************************************************)
C9_Original ==
    (Done("query_spp_values") /\ ret = "returned")
    => /\ Cardinality(DOMAIN results) = Len(command_ids)
       /\ \A cid \in DOMAIN results : results[cid] \in Byte \cup {None}

(***************************************************************************)
(* C9 amended: whenever query_spp_values returns - early, after an aborted *)
(* batch or after a completed one - the mapping has exactly one entry per  *)
(* distinct command id of the sequence (N entries when the N ids are       *)
(* pairwise distinct), each a byte 0..255 or absent.                       *)
(***************************************************************************)
Distinct(ids) == \A a, b \in DOMAIN ids : a # b => ids[a] # ids[b]

C9_EntryPerDistinctId ==
    (Done("query_spp_values") /\ ret = "returned")
    => /\ DOMAIN results = Range(command_ids)
       /\ Distinct(command_ids) => Cardinality(DOMAIN results) = Len(command_ids)
       /\ \A cid \in DOMAIN results : results[cid] \in Byte \cup {None}

C9_Witness ==
    /\ Done("query_spp_values")
    /\ ret = "returned"
    /\ command_ids = <<EQ_PRESET, EQ_PRESET>>
    /\ Cardinality(DOMAIN results) = 1
    /\ results[EQ_PRESET] \in Byte

TransportStepFailed ==
    Failed("connect") \/ Failed("send") \/ Failed("settimeout") \/ Failed("recv")

C11_NoneOnTransportFailure ==
    Done("query_spp_value")
    => /\ TransportStepFailed => (ret = "returned" /\ retVal = None)
       /\ (ret = "returned" /\ retVal # None)
            => /\ Succeeded("recv")
               /\ retVal = ByteAfterLeftmost(resp, command_id)
               /\ retVal \in Byte

(***************************************************************************)
(* C12: channel resolution in send_spp_command, query_spp_value and        *)
(* query_spp_values.  When sdptool is missing, times out, prints a channel *)
(* line that does not parse or prints no channel line, the call goes on    *)
(* and connects on the default channel 5; when it reports a channel, the   *)
(* first channel number reported is the one given to connect.              *)
(***************************************************************************)
ChannelLines(ls) == {k \in DOMAIN ls : ls[k].isChannel}

FirstReported(ls) == CHOOSE k \in ChannelLines(ls) : \A m \in ChannelLines(ls) : k <= m

ExpectedChannel(res) ==
    IF res.exc \in {"FileNotFoundError", "TimeoutExpired"} THEN 5
    ELSE IF ChannelLines(res.lines) = {} THEN 5
    ELSE IF res.lines[FirstReported(res.lines)].num = None THEN 5
    ELSE res.lines[FirstReported(res.lines)].num

C12_ChannelResolution ==
    [][/\ (/\ pc \in {"send_lookup", "qv_lookup", "qvs_lookup"}
           /\ result.exc \in {NoExc, "FileNotFoundError", "TimeoutExpired"})
          => /\ channel' = ExpectedChannel(result)
             /\ ret' = "none"
             /\ pc' \in {"send_socket", "qv_socket", "qvs_socket"}
       /\ pc \in {"send_socket", "qv_socket", "qvs_socket"} => channel' = channel
       /\ pc \in {"send_connect", "qv_connect", "qvs_connect"}
          => /\ channel' = channel
             /\ Len(log') > Len(log)
             /\ log'[Len(log) + 1].ev = "connect"
             /\ log'[Len(log) + 1].arg = <<channel>>
      ]_vars

C12_Witness ==
    /\ Done("query_spp_values")
    /\ \E k \in Entries("sdptool") : log[k].arg = <<None>> /\ log[k].out = NoExc
    /\ \E k \in Entries("connect") : log[k].arg = <<5>> /\ log[k].out = NoExc
    /\ Count("send") = Len(command_ids)
    /\ ret = "returned"

(***************************************************************************)
(* The session of a send_spp_command call: what follows the discovery      *)
(* (sdptool on the native transport, find_service on the fallback) in the  *)
(* log.  SendSession states the step sequence of one transmission as a     *)
(* function of the outcomes alone, with no reference to the transport:     *)
(* socket, connect, send of the packet, 0.3 s sleep, settimeout(1.0),      *)
(* recv(1024), stopping at the first step that fails, then close if the    *)
(* socket was created; the result is True exactly when the send succeeded. *)
(***************************************************************************)
DiscoveryEntries == Entries("sdptool") \cup Entries("find_service")

Session ==
    IF DiscoveryEntries = {} THEN Empty
    ELSE SubSeq(log, (CHOOSE k \in DiscoveryEntries : TRUE) + 1, Len(log))

Closes(T) == T # Empty /\ T[Len(T)].ev = "close"

Body(T) == IF Closes(T) THEN SubSeq(T, 1, Len(T) - 1) ELSE T

SendStep(k) ==
    CASE k = 1 -> [ev |-> "socket", arg |-> Empty]
      [] k = 2 -> [ev |-> "connect", arg |-> <<channel>>]
      [] k = 3 -> [ev |-> "send", arg |-> command]
      [] k = 4 -> [ev |-> "sleep", arg |-> <<300>>]
      [] k = 5 -> [ev |-> "settimeout", arg |-> <<1000>>]
      [] k = 6 -> [ev |-> "recv", arg |-> <<1024>>]

SendSession(T) ==
    LET B == Body(T)
    IN  /\ Len(B) \in 1..6
        /\ \A k \in 1..Len(B) : B[k].ev = SendStep(k).ev /\ B[k].arg = SendStep(k).arg
        /\ \A k \in 1..(Len(B) - 1) : B[k].out = NoExc
        /\ Len(B) < 6 => B[Len(B)].out # NoExc
        /\ Closes(T) <=> B[1].out = NoExc
        /\ retBool <=> (Len(B) >= 3 /\ B[3].out = NoExc)
        /\ ret = "returned" <=> (~Closes(T) \/ T[Len(T)].out = NoExc)

(***************************************************************************)
(* C13 as stated: for every combination of outcomes of discovery, connect, *)
(* write and read the native and the fallback transport return the same    *)
(* boolean after the same steps - the steps of section 4.2, which go on    *)
(* with the default channel when discovery finds nothing.                  *)
(***************************************************************************)
C13_Original ==
    (/\ Done("send_spp_command")
     /\ \E k \in DiscoveryEntries : log[k].out = NoExc)
    => SendSession(Session)

(***************************************************************************)
(* C13 amended: once discovery has yielded a channel (sdptool's channel or *)
(* the default 5 on the native transport, the first service's port on the  *)
(* fallback), both transports perform the same steps and return the same   *)
(* boolean for every combination of outcomes of socket creation, connect,  *)
(* write, timeout setup, read and close.  They differ when discovery finds *)
(* nothing: the native transport goes on with channel 5, the fallback      *)
(* returns False without creating a socket.                                *)
(***************************************************************************)
C13_SameSessionOnBothTransports ==
    (/\ Done("send_spp_command")
     /\ channel # None)
    => SendSession(Session)

C13_Witness ==
    /\ Done("send_spp_command")
    /\ ~hasAF
    /\ channel = 3
    /\ \E k \in Entries("recv") : log[k].out = "TimeoutError"
    /\ Count("close") = 1
    /\ ret = "returned"
    /\ retBool

(***************************************************************************)
(* C14: on the fallback transport, when find_service finds no serial-port  *)
(* service, send_spp_command returns False and no socket is created,       *)
(* connected or written.                                                   *)
(***************************************************************************)
NoServiceFound ==
    \E k \in Entries("find_service") : log[k].out = NoExc /\ log[k].arg = Empty

C14_NoServiceNoSocket ==
    (op = "send_spp_command" /\ NoServiceFound)
    => /\ pc = "done"
       /\ ret = "returned"
       /\ retBool = FALSE
       /\ ~sock
       /\ Count("socket") = 0
       /\ Count("connect") = 0
       /\ Count("send") = 0
       /\ log[Len(log)].ev = "find_service"

C14_Witness ==
    /\ Done("send_spp_command")
    /\ ~hasAF
    /\ NoServiceFound
    /\ ret = "returned"
    /\ retBool = FALSE
    /\ Len(log) = 2

(***************************************************************************)
(* C15: when neither the native socket nor the fallback library is         *)
(* available, send_spp_command returns False at once: no channel or        *)
(* service lookup, no socket creation, no connect, no write.               *)
(***************************************************************************)
NoTransport == (~hasAF) /\ Failed("import")

C15_NoTransportNoAttempt ==
    (op = "send_spp_command" /\ NoTransport)
    => /\ pc = "done"
       /\ ret = "returned"
       /\ retBool = FALSE
       /\ log = <<Ev("import", Empty, "ImportError")>>
       /\ ~sock
       /\ channel = None

C15_Witness ==
    /\ Done("send_spp_command")
    /\ NoTransport
    /\ ret = "returned"
    /\ retBool = FALSE
    /\ Count("find_service") = 0
    /\ Count("sdptool") = 0

(***************************************************************************)
(* C16: a connection failure is never retried: in one call of              *)
(* send_spp_command or query_spp_value connect is attempted at most once,  *)
(* and after a failed connect no further connect, write or read happens    *)
(* before the operation returns False / None.                              *)
(***************************************************************************)
AfterFailedConnect ==
    {k \in DOMAIN log :
        \E j \in Entries("connect") : log[j].out # NoExc /\ j < k}

C16_NoRetry ==
    op \in {"send_spp_command", "query_spp_value"}
    => /\ Count("connect") <= 1
       /\ \A k \in AfterFailedConnect : log[k].ev = "close"
       /\ Failed("connect")
            => /\ Count("send") = 0
               /\ Count("settimeout") = 0
               /\ Count("recv") = 0
               /\ pc \in {"send_finally", "pyb_finally", "qv_finally", "done"}
       /\ (pc = "done" /\ Failed("connect"))
            => /\ OnlyCloseRaises
               /\ op = "send_spp_command" => retBool = FALSE
               /\ log[Len(log)].out = NoExc
                    => /\ ret = "returned"
                       /\ op = "query_spp_value" => retVal = None

C16_Witness ==
    /\ Done("query_spp_value")
    /\ \E k \in Entries("connect") : log[k].out = "ConnectionRefusedError"
    /\ Count("connect") = 1
    /\ log[Len(log)] = Ev("close", Empty, NoExc)
    /\ ret = "returned"
    /\ retVal = None

(***************************************************************************)
(* C17: in a successful send_spp_command the steps occur in this order and *)
(* no other: resolve channel, connect, exactly one write carrying the      *)
(* given packet unmodified, settle delay (300 ms), at most one bounded     *)
(* read (up to 1024 bytes), close; the read is never attempted before the  *)
(* write and the settle delay have completed.                              *)
(***************************************************************************)
SendStepKinds == {"sdptool", "find_service", "connect", "send", "sleep", "recv", "close"}

IsSendStep(e) == e.ev \in SendStepKinds

\* the steps the claim names, in the order they happened, without outcomes
NamedSteps ==
    LET P == SelectSeq(log, IsSendStep)
    IN  [k \in DOMAIN P |->
            IF P[k].ev \in {"sdptool", "find_service"}
            THEN [ev |-> "resolve", arg |-> Empty]
            ELSE [ev |-> P[k].ev, arg |-> P[k].arg]]

StepsUpToDelay ==
    << [ev |-> "resolve", arg |-> Empty],
       [ev |-> "connect", arg |-> <<channel>>],
       [ev |-> "send",    arg |-> command],
       [ev |-> "sleep",   arg |-> <<300>>] >>

ReadStep == [ev |-> "recv", arg |-> <<1024>>]

CloseStep == [ev |-> "close", arg |-> Empty]

SendSucceeded == Done("send_spp_command") /\ ret = "returned" /\ retBool

C17_SendStepOrder ==
    /\ SendSucceeded
         => /\ NamedSteps \in {StepsUpToDelay \o <<CloseStep>>,
                               StepsUpToDelay \o <<ReadStep, CloseStep>>}
            /\ \A k \in DOMAIN log :
                  log[k].ev \in {"connect", "send", "sleep", "close"}
                     => log[k].out = NoExc
    /\ op = "send_spp_command"
         => \A k \in Entries("recv") :
               /\ k > 3
               /\ log[k - 3] = Ev("send", command, NoExc)
               /\ log[k - 2] = Ev("sleep", <<300>>, NoExc)

C17_Witness ==
    /\ SendSucceeded
    /\ hasAF
    /\ command = <<3, 1, EQ_PRESET, 1>>
    /\ NamedSteps = StepsUpToDelay \o <<ReadStep, CloseStep>>
    /\ \E k \in Entries("recv") : log[k].out = NoExc

(***************************************************************************)
(* C18: in query_spp_value the steps after channel resolution occur in     *)
(* this order: connect, wait (300 ms), exactly one write of the 3-byte     *)
(* query 02 01 command_id, wait (500 ms), exactly one read, value          *)
(* extraction on the bytes read, close; no read precedes the write and the *)
(* value returned comes only from that single read.  A call in which a     *)
(* step fails performs a prefix of these steps, then close.                *)
(***************************************************************************)
QueryStepKinds == {"connect", "send", "sleep", "recv"}

IsQueryStep(e) == e.ev \in QueryStepKinds

QuerySteps ==
    << [ev |-> "connect", arg |-> <<channel>>],
       [ev |-> "sleep",   arg |-> <<300>>],
       [ev |-> "send",    arg |-> <<2, 1, command_id>>],
       [ev |-> "sleep",   arg |-> <<500>>],
       [ev |-> "recv",    arg |-> <<1024>>] >>

AllStepsOk == \A k \in DOMAIN log : log[k].out = NoExc

C18_QueryStepOrder ==
    op = "query_spp_value"
    => LET P == SelectSeq(log, IsQueryStep)
       IN  /\ Len(P) <= Len(QuerySteps)
           /\ \A k \in DOMAIN P :
                 /\ P[k].ev = QuerySteps[k].ev
                 /\ P[k].arg = QuerySteps[k].arg
                 /\ k < Len(P) => P[k].out = NoExc
           /\ \A k \in Entries("close") : k = Len(log)
           /\ \A k \in Entries("recv") :
                 \E j \in Entries("send") : j < k /\ log[j].out = NoExc
           /\ (pc = "done" /\ AllStepsOk /\ hasAF)
                => /\ Len(P) = Len(QuerySteps)
                   /\ log[Len(log)].ev = "close"
           /\ (pc = "done" /\ ret = "returned")
                => retVal = IF Succeeded("recv")
                            THEN ByteAfterLeftmost(resp, command_id)
                            ELSE None
           /\ ~Succeeded("recv") => resp = Empty

C18_Witness ==
    /\ Done("query_spp_value")
    /\ AllStepsOk
    /\ Count("send") = 1
    /\ Count("recv") = 1
    /\ Len(resp) = MaxResp
    /\ resp[1] # command_id
    /\ ret = "returned"
    /\ retVal \in Byte

(***************************************************************************)
(* C19: in query_spp_values the queries are transmitted in the order of    *)
(* the given command ids, and transmissions and reads strictly alternate:  *)
(* for each command id its 3-byte query is written, the pacing delay       *)
(* (1000 ms) elapses, and one read is attempted (settimeout(2.0) then      *)
(* recv(1024)) before the query of the next command id is written.         *)
(***************************************************************************)
LaterSends(j) == {k \in Entries("send") : k > j}

NextSend(j) == CHOOSE k \in LaterSends(j) : \A m \in LaterSends(j) : k <= m

\* the read attempt that follows the transmission logged at j, ending before e
ReadAttempted(j, e) ==
    /\ e >= j + 3
    /\ log[j + 1] = Ev("sleep", <<1000>>, NoExc)
    /\ log[j + 2].ev = "settimeout" /\ log[j + 2].arg = <<2000>>
    /\ IF log[j + 2].out = NoExc
       THEN e = j + 4 /\ log[j + 3].ev = "recv" /\ log[j + 3].arg = <<1024>>
       ELSE e = j + 3

C19_QueriesInOrderAlternating ==
    op = "query_spp_values"
    => /\ \A j \in Entries("send") :
             /\ SendsUpTo(j) <= Len(command_ids)
             /\ log[j].arg = <<2, 1, command_ids[SendsUpTo(j)]>>
             /\ log[j].out # NoExc => LaterSends(j) = {} /\ Count("recv") < SendsUpTo(j)
             /\ LaterSends(j) # {} => ReadAttempted(j, NextSend(j))
             /\ (pc = "done" /\ LaterSends(j) = {} /\ log[j].out = NoExc)
                  => ReadAttempted(j, Len(log))
       /\ Count("recv") <= Count("send")
       /\ Count("settimeout") <= Count("send")
       /\ (pc = "done" /\ Succeeded("connect") /\ ~Failed("send"))
            => Count("send") = Len(command_ids)

C19_Witness ==
    /\ Done("query_spp_values")
    /\ command_ids = <<SONIFICATION, EQ_PRESET>>
    /\ Count("send") = 2
    /\ Count("recv") = 2
    /\ \E j \in Entries("send") : log[j].arg = <<2, 1, EQ_PRESET>> /\ LaterSends(j) = {}
    /\ ret = "returned"

(***************************************************************************)
(* C20: set_speaker_name sends exactly the packet                          *)
(* build_spp_command(0x72, first min(len, 32) bytes of the UTF-8 encoding  *)
(* of the name): a name of at most 32 bytes is sent unmodified, a longer   *)
(* name is truncated to its first 32 bytes, so the packet sent never       *)
(* exceeds 35 bytes.                                                       *)
(***************************************************************************)
NameSent == op = "send_spp_command" /\ name # NoName

Utf8Name == Utf8Encode(name).bytes

FirstBytes ==
    [k \in 1..(IF Len(Utf8Name) <= 32 THEN Len(Utf8Name) ELSE 32) |-> Utf8Name[k]]

C20_NamePacket ==
    /\ NameSent
         => /\ command = <<Len(FirstBytes) + 2, 1, 114>> \o FirstBytes
            /\ command = build_spp_command(114, FirstBytes).bytes
            /\ Len(Utf8Name) <= 32 => SubSeq(command, 4, Len(command)) = Utf8Name
            /\ Len(command) <= 35
            /\ Count("send") <= 1
            /\ \A k \in Entries("send") : log[k].arg = command
            /\ (pc = "done" /\ ret = "returned" /\ retBool) => Succeeded("send")
    /\ op = "set_speaker_name" => log = Empty

C20_Witness ==
    /\ Done("send_spp_command")
    /\ name = Repeat(65, 50)
    /\ \E k \in Entries("send") :
          /\ log[k].out = NoExc
          /\ Len(log[k].arg) = 35
          /\ log[k].arg[1] = 34
          /\ log[k].arg[35] = 65
    /\ ret = "returned"
    /\ retBool

C20_WitnessSplitCharacter ==
    /\ Done("send_spp_command")
    /\ name = <<65>> \o Repeat(233, 16)
    /\ \E k \in Entries("send") :
          /\ log[k].out = NoExc
          /\ Len(log[k].arg) = 35
          /\ log[k].arg[35] = 195

(***************************************************************************)
(* C21: every packet the program builds itself - every entry of COMMANDS,  *)
(* the set-name packet, every query probe written by query_spp_value and   *)
(* query_spp_values - has byte 0 = len(packet) - 1 and byte 1 = 0x01; the  *)
(* probe for a command id equals build_spp_command(command_id) with no     *)
(* parameters.                                                             *)
(***************************************************************************)
Enveloped(p) ==
    /\ Len(p) >= 3
    /\ p[1] = Len(p) - 1
    /\ p[2] = 1

\* the id whose probe the send logged at k carries
ProbedId(k) ==
    IF op = "query_spp_values" THEN command_ids[SendsUpTo(k)] ELSE command_id

C21_EnvelopeEverywhere ==
    /\ \A key \in DOMAIN COMMANDS : Enveloped(COMMANDS[key])
    /\ NameSent => Enveloped(command)
    /\ op \in {"query_spp_value", "query_spp_values"}
         => \A k \in Entries("send") :
               /\ Enveloped(log[k].arg)
               /\ Len(log[k].arg) = 3
               /\ log[k].arg[3] = ProbedId(k)
               /\ log[k].arg = build_spp_command(ProbedId(k), Empty).bytes

C21_Witness ==
    /\ Done("query_spp_values")
    /\ command_ids = <<EQ_PRESET, SONIFICATION>>
    /\ \E j, k \in Entries("send") :
          /\ log[j] = Ev("send", <<2, 1, 100>>, NoExc)
          /\ log[k] = Ev("send", <<2, 1, 101>>, NoExc)

(***************************************************************************)
(* C23: the key set of the pre-built COMMANDS table is exactly             *)
(* {battery_announce, sound_power_on, stereo_discover, role_left,          *)
(* role_right}; role_left, role_right and battery_announce equal           *)
(* build_spp_command(0x68, 0x00), build_spp_command(0x68, 0x01) and        *)
(* build_spp_command(0x6B).                                                *)
(***************************************************************************)
C23_CommandsTable ==
    pc = "idle" =>
    /\ DOMAIN COMMANDS = {"battery_announce", "sound_power_on", "stereo_discover",
                          "role_left", "role_right"}
    /\ COMMANDS["role_left"] = <<3, 1, 104, 0>>
    /\ COMMANDS["role_right"] = <<3, 1, 104, 1>>
    /\ COMMANDS["battery_announce"] = <<2, 1, 107>>

(***************************************************************************)
(* C28: response correlation in query_spp_values: a value recorded for a   *)
(* command id is the byte following the first occurrence of that id in the *)
(* bytes returned by the read performed right after that id's own query    *)
(* was written; the bytes of one read are scanned only for the id of the   *)
(* query just sent and never attributed to another command id.             *)
(***************************************************************************)
\* the id of the query written last
LastQueried == log[CHOOSE k \in Entries("send") : LaterSends(k) = {}].arg[3]

InBatch == op = "query_spp_values" /\ pc \notin {"idle", "done"}

C28_ResponseCorrelation ==
    [][(InBatch /\ results' # results)
         => /\ pc = "qvs_recv"
            /\ JustRead
            /\ Len(log) >= 3
            /\ log[Len(log) - 2] = Ev("send", <<2, 1, LastQueried>>, NoExc)
            /\ log[Len(log) - 1] = Ev("sleep", <<1000>>, NoExc)
            /\ log[Len(log)] = Ev("settimeout", <<2000>>, NoExc)
            /\ LastQueried = command_ids[idx]
            /\ results'[LastQueried] = ByteAfterLeftmost(resp', LastQueried)
            /\ results'[LastQueried] \in Byte
            /\ \A cid \in DOMAIN results :
                  cid # LastQueried => results'[cid] = results[cid]
      ]_vars

C28_Witness ==
    /\ Done("query_spp_values")
    /\ command_ids = <<EQ_PRESET, SONIFICATION>>
    /\ resp = <<EQ_PRESET, 0, SONIFICATION>>
    /\ results[EQ_PRESET] = SONIFICATION
    /\ results[SONIFICATION] = None
    /\ Count("recv") = 2
    /\ ret = "returned"

(***************************************************************************)
(* C29: during query_spp_values the result mapping starts with every       *)
(* requested id mapped to absent, its key set never changes afterwards,    *)
(* and an entry that has been set to a value is never reset to absent:     *)
(* when the batch aborts partway, values already recorded for earlier ids  *)
(* are returned unchanged and the remaining ids are absent.                *)
(***************************************************************************)
C29_ResultsOnlyGrow ==
    [][/\ (pc = "idle" /\ op' = "query_spp_values")
            => /\ DOMAIN results' = Range(command_ids')
               /\ \A cid \in DOMAIN results' : results'[cid] = None
       /\ (op = "query_spp_values" /\ op' = op)
            => /\ DOMAIN results' = DOMAIN results
               /\ \A cid \in DOMAIN results :
                     results[cid] # None => results'[cid] # None
               /\ pc' \in {"qvs_finally", "done"} /\ pc # "qvs_recv"
                     => results' = results
               /\ pc' = "done"
                     => /\ \A cid \in DOMAIN results' :
                              cid \notin AnsweredIds' => results'[cid] = None
      ]_vars

C29_Witness ==
    /\ Done("query_spp_values")
    /\ command_ids = <<SONIFICATION, EQ_PRESET>>
    /\ \E k \in Entries("send") : log[k] = Ev("send", <<2, 1, EQ_PRESET>>, "OSError")
    /\ results[SONIFICATION] \in Byte
    /\ results[EQ_PRESET] = None
    /\ ret = "returned"

(***************************************************************************)
(* C30: in send_spp_command, query_spp_value and query_spp_values a write  *)
(* or read is performed on a socket only after connect on that socket      *)
(* succeeded and before the socket is closed: no write or read after a     *)
(* failed connect, no use of a socket after close.                         *)
(***************************************************************************)
SocketUses == Entries("send") \cup Entries("settimeout") \cup Entries("recv")

C30_UseOnlyWhileConnected ==
    op \in SppOps
    => /\ \A k \in SocketUses :
             /\ \E s \in Entries("socket") : s < k /\ log[s].out = NoExc
             /\ \E c \in Entries("connect") : c < k /\ log[c].out = NoExc
             /\ \A c \in Entries("connect") : c < k
             /\ \A z \in Entries("close") : k < z
             /\ sock \/ pc = "done"
       /\ \A c \in Entries("connect") :
             /\ \E s \in Entries("socket") : s < c /\ log[s].out = NoExc
             /\ \A z \in Entries("close") : c < z
       /\ Failed("connect") => SocketUses = {}
       /\ \A z \in Entries("close") : z = Len(log) /\ pc = "done"

C30_Witness ==
    /\ Done("send_spp_command")
    /\ ~hasAF
    /\ Succeeded("connect")
    /\ Succeeded("send")
    /\ Succeeded("recv")
    /\ log[Len(log)] = Ev("close", Empty, NoExc)
    /\ Count("close") = 1


(***************************************************************************)
(* The command line: what one run of main printed, asked and called.       *)
(***************************************************************************)
IsCallEv(e) == e.ev = "call"

IsReturnEv(e) == e.ev = "return"

TraceHas(e) == \E k \in DOMAIN trace : trace[k] = e

InSetupFlow == Branch(cli_args) = "stereo_setup" /\ main_pc \notin {"none", "parsed"}

ModeStereo == Called("send_spp_command", mac, COMMANDS["mode_stereo"])

RoleCalls ==
    {Called("send_spp_command", mac, COMMANDS[r]) : r \in {"role_left", "role_right"}}

SentOk == Returned("send_spp_command", TRUE, NoExc)

Confirmed(e) ==
    e.ev = "input" /\ e.what = "confirm" /\ e.exc = NoExc /\ StripLower(e.text) \in {"y", "yes"}

Declined(e) ==
    e.ev = "input" /\ e.what = "confirm" /\ e.exc = NoExc
        /\ StripLower(e.text) \notin {"y", "yes"}

\* C25: in the guided stereo setup, an answer to the confirmation prompt
\* other than y / yes ends the flow with "Setup cancelled." and main returns
\* without any operation on the device having been called.
C25_DeclineSendsNothing ==
    \A k \in DOMAIN trace :
        Declined(trace[k]) =>
            /\ Len(trace) = k + 1
            /\ trace[k + 1] = Printed("cancelled")
            /\ \A j \in DOMAIN trace : trace[j].ev # "call"
            /\ pc = "main"
            /\ log = Empty
            /\ main_pc = "exit"
            /\ main_raised = NoExc

C25_Witness ==
    /\ InSetupFlow
    /\ main_pc = "exit"
    /\ \E k \in DOMAIN trace : Declined(trace[k]) /\ trace[k].text = "n"


\* C24: in the guided stereo setup every command goes out after the user
\* confirmed; the first command is the stereo-mode command and a role
\* command goes out only after the stereo-mode command returned success; a
\* failed stereo-mode send ends the flow with one command sent; a flow that
\* reports completion sent exactly two commands, stereo mode and then one
\* role, both successful; a failed role send ends the flow with neither
\* the role nor completion reported.
C24_SetupOrder ==
    InSetupFlow =>
        LET calls == SelectSeq(trace, IsCallEv)
            returns  == SelectSeq(trace, IsReturnEv)
        IN  /\ Len(calls) <= 2
            /\ \A k \in DOMAIN trace :
                  trace[k].ev = "call" =>
                      \E i \in 1..(k - 1) : Confirmed(trace[i])
            /\ Len(calls) >= 1 => calls[1] = ModeStereo
            /\ \A k \in DOMAIN trace :
                  trace[k] \in RoleCalls =>
                      \E i \in 1..(k - 1) :
                          /\ trace[i] = ModeStereo
                          /\ trace[i + 1] = SentOk
                          /\ i + 1 < k
            /\ Len(calls) = 2 => calls[2] \in RoleCalls
            /\ (Len(returns) >= 1 /\ ~returns[1].ok) =>
                  /\ main_pc = "exit"
                  /\ Len(calls) = 1
            /\ TraceHas(Printed("complete")) =>
                  /\ calls \in {<<ModeStereo, r>> : r \in RoleCalls}
                  /\ returns = <<SentOk, SentOk>>
                  /\ main_pc = "exit"
                  /\ main_raised = NoExc
            /\ (Len(returns) = 2 /\ ~returns[2].ok) =>
                  /\ main_pc = "exit"
                  /\ ~TraceHas(Printed("complete"))
                  /\ ~TraceHas(Printed("assigned"))
            /\ (main_pc = "exit" /\ returns = <<SentOk, SentOk>>) =>
                  TraceHas(Printed("complete"))

C24_Witness ==
    /\ InSetupFlow
    /\ main_pc = "exit"
    /\ TraceHas(Printed("complete"))
    /\ role_name = "right"
    /\ SelectSeq(trace, IsCallEv)[2].cmd = <<3, 1, DOUBLE_UP_ROLE, 1>>


Interrupted(e) ==
    e.ev = "input" /\ e.what \in {"confirm", "wait", "role"} /\ e.exc \in InputFaults

\* C26: in the guided stereo setup, KeyboardInterrupt or EOFError raised by
\* any of the three prompts ends the flow: "Setup cancelled." is printed
\* next, main returns with no exception, no command is sent afterwards, and
\* the discovery-mode warning is printed exactly when the stereo-mode
\* command had been sent and had returned success before.
C26_InterruptCancels ==
    InSetupFlow =>
        \A k \in DOMAIN trace :
            Interrupted(trace[k]) =>
                LET sent == \E i \in 1..(k - 2) :
                                trace[i] = ModeStereo /\ trace[i + 1] = SentOk
                IN  /\ main_pc = "exit"
                    /\ main_raised = NoExc
                    /\ pc = "main"
                    /\ Len(trace) > k
                    /\ trace[k + 1] = Printed("cancelled")
                    /\ \A j \in (k + 1)..Len(trace) : trace[j].ev # "call"
                    /\ TraceHas(Printed("warning")) <=> sent
                    /\ sent => trace[k + 2] = Printed("warning") /\ Len(trace) = k + 2
                    /\ ~sent => Len(trace) = k + 1

C26_Witness ==
    /\ InSetupFlow
    /\ main_pc = "exit"
    /\ TraceHas(Asked("role", "", "KeyboardInterrupt"))
    /\ TraceHas(Printed("warning"))


NoMacRun == cli_args.mac = NoMac /\ ~cli_args.list /\ main_pc \notin {"none", "parsed"}

\* C27: a run without --mac and without --list first looks for the paired
\* speakers.  With exactly one found, that speaker's address is the address
\* of every status read, query and command of the run.  With several or
\* none found, main returns right after listing them or printing the help:
\* no operation on any device is called and no collaborator of spp.py is
\* touched.
C27_AutoDetect ==
    (NoMacRun /\ trace # Empty) =>
        /\ trace[1].ev = "devices"
        /\ LET found == trace[1].devices
           IN  /\ Len(found) = 1 =>
                     /\ mac = found[1]
                     /\ trace[2] = Printed("auto_detected")
                     /\ \A k \in DOMAIN trace : trace[k].ev = "call" => trace[k].mac = found[1]
               /\ Len(found) # 1 =>
                     /\ trace = <<Found(found),
                                  Printed(IF Len(found) > 1 THEN "multiple" ELSE "help")>>
                     /\ mac = NoMac
                     /\ main_pc = "exit"
                     /\ main_raised = NoExc
                     /\ pc = "main"
                     /\ log = Empty

C27_Witness ==
    /\ NoMacRun
    /\ main_pc = "exit"
    /\ trace # Empty
    /\ trace[1] = Found(<< <<"00:11:22", "00:00:02">> >>)
    /\ TraceHas(Called("get_device_status", <<"00:11:22", "00:00:02">>, Empty))
    /\ TraceHas(Called("query_spp_values", <<"00:11:22", "00:00:02">>,
                       <<EQ_PRESET, SONIFICATION, VOLUME_ADJUST>>))


\* a tool missing, a tool timing out, a connect or read error
DeviceFaults ==
    {"FileNotFoundError", "TimeoutExpired", "OSError", "TimeoutError",
     "ConnectionRefusedError"}

\* C22: no run of main ends in an exception caused by a fault of the
\* discovery or status tools or of the serial channel: whenever main is
\* over after such a fault, it has returned normally.
C22_NoCrashOnFault == main_pc = "exit" => main_raised \notin DeviceFaults



(***************************************************************************)
(* C31: at every point of a run of main at most one device socket is open  *)
(* (created and not yet closed); the session of one call is closed before  *)
(* main goes on, so before the next one is opened - also between the two   *)
(* sends of --stereo and of the guided stereo setup - and before main      *)
(* returns.  A close() that reports an error has still released the        *)
(* socket.                                                                 *)
(***************************************************************************)
OpenSockets == SocketsCreated - Count("close")

FrameDropped == pc = "done" /\ pc' # "done"

C31_OneSocketAtATime ==
    /\ [](OpenSockets \in {0, 1})
    /\ [](pc \in {"main", "done"} => OpenSockets = 0)
    /\ [][FrameDropped => OpenSockets = 0 /\ OpenSockets' = 0]_vars
    /\ [](main_pc = "exit" => pc = "main" /\ OpenSockets = 0)

C31_Witness ==
    /\ Branch(cli_args) = "stereo"
    /\ main_pc = "last_call"
    /\ TraceHas(Returned("send_spp_command", TRUE, NoExc))
    /\ command = COMMANDS["role_right"]
    /\ OpenSockets = 1
    /\ pc = "send_recv"


(***************************************************************************)
(* C32: queries have no fallback transport.  Without native Bluetooth      *)
(* sockets query_spp_value returns None and query_spp_values returns every *)
(* requested id mapped to None; given no ids query_spp_values returns the  *)
(* empty mapping.  In these cases the call is over at once: no channel     *)
(* lookup, no socket, no connect, no write - no collaborator is touched.   *)
(***************************************************************************)
C32_NoFallbackForQueries ==
    /\ (op = "query_spp_value" /\ ~hasAF)
         => /\ pc = "done"
            /\ ret = "returned"
            /\ retVal = None
            /\ log = Empty
            /\ ~sock
    /\ (op = "query_spp_values" /\ (~hasAF \/ command_ids = Empty))
         => /\ pc = "done"
            /\ ret = "returned"
            /\ DOMAIN results = Range(command_ids)
            /\ \A cid \in DOMAIN results : results[cid] = None
            /\ command_ids = Empty => results = << >>
            /\ log = Empty
            /\ ~sock

C32_Witness ==
    /\ Done("query_spp_values")
    /\ ~hasAF
    /\ command_ids = <<EQ_PRESET, SONIFICATION>>
    /\ results = [cid \in {EQ_PRESET, SONIFICATION} |-> None]
    /\ log = Empty


(***************************************************************************)
(* C33: build_spp_command returns a packet exactly when command_id and     *)
(* every parameter are in 0..255 and there are at most 253 parameters;     *)
(* otherwise it raises ValueError and returns nothing.  A packet returned  *)
(* has a length byte that is the number of bytes after it, never a value   *)
(* reduced modulo 256.                                                     *)
(***************************************************************************)
InRangeInput ==
    /\ command_id \in 0..255
    /\ \A k \in DOMAIN params : params[k] \in 0..255
    /\ Len(params) <= 253

C33_NoWrappedLength ==
    Done("build_spp_command")
    => /\ ret = "returned" <=> InRangeInput
       /\ ret # "returned"
            => /\ ret = "raised"
               /\ raised = "ValueError"
               /\ retBytes = Empty
       /\ ret = "returned"
            => /\ raised = NoExc
               /\ retBytes # Empty
               /\ retBytes[1] = Len(retBytes) - 1
               /\ retBytes[1] = 2 + Len(params)
               /\ \A k \in DOMAIN retBytes : retBytes[k] \in 0..255

C33_Witness ==
    /\ Done("build_spp_command")
    /\ command_id = EQ_PRESET
    /\ Len(params) = 254
    /\ \A k \in DOMAIN params : params[k] \in 0..255
    /\ ret = "raised"
    /\ raised = "ValueError"


(***************************************************************************)
(* C34: every command name that --eq, --mode, --stereo, --alerts, --ble,   *)
(* --volume and the menu choices 1..17 and 19 look up is a key of          *)
(* COMMANDS: no accepted option value or menu choice ends in KeyError      *)
(* before anything is sent.                                                *)
(***************************************************************************)
C34_DispatchedNamesAreCommands ==
    /\ (main_pc = "dispatch"
          /\ Branch(cli_args) \in {"eq", "mode", "alerts", "ble", "volume"})
         => Key(Branch(cli_args), cli_args[Branch(cli_args)]) \in DOMAIN COMMANDS
    /\ (main_pc = "dispatch" /\ Branch(cli_args) = "stereo")
         => {"mode_stereo", Key("role", cli_args.stereo)} \subseteq DOMAIN COMMANDS
    /\ main_pc = "prompt"
         => \A choice \in DOMAIN command_map : command_map[choice] \in DOMAIN COMMANDS
    /\ main_raised # "KeyError"


(***************************************************************************)
(* C35: whatever bytes the device sends ahead of it, a read that ends with *)
(* the envelope [len, 00, 00, 01, command_id, value] makes query_spp_value *)
(* take value as its result, and query_spp_values take value as the entry  *)
(* of that id.                                                             *)
(***************************************************************************)
EndsWithEnvelope(r, cid) ==
    /\ Len(r) >= 6
    /\ SubSeq(r, Len(r) - 4, Len(r) - 1) = <<0, 0, 1, cid>>

EnvelopeValue(r) == r[Len(r)]

C35_NoiseTolerance ==
    [][/\ (pc = "qv_recv" /\ JustRead /\ EndsWithEnvelope(resp', command_id))
            => retVal' = EnvelopeValue(resp')
       /\ (pc = "qvs_recv" /\ JustRead /\ EndsWithEnvelope(resp', command_id))
            => results'[command_id] = EnvelopeValue(resp')
      ]_vars


(***************************************************************************)
(* C36: --status queries the device over the serial channel only when the  *)
(* status record says it is connected.  With the connected field false or  *)
(* missing, main returns after printing the record: no query is called,    *)
(* no channel lookup, socket or connect happens.  With it true, main calls *)
(* query_spp_values once, for all three status values, and that call uses  *)
(* at most one lookup, one socket and one connect.                         *)
(***************************************************************************)
StatusRun == Branch(cli_args) = "status" /\ \E k \in DOMAIN trace : trace[k].ev = "call"

IsStatusRead(e) == e.ev = "return" /\ e.what = "get_device_status" /\ e.exc = NoExc

StatusQuery == Called("query_spp_values", mac, <<EQ_PRESET, SONIFICATION, VOLUME_ADJUST>>)

====
